---- MODULE Spec2Model ----
(***************************************************************************)
(* Verification model of the AuraVest quantitative core                    *)
(* (src/quantitative_models.py, src/risk_models.py).                       *)
(*                                                                         *)
(* Real numbers are fixed-point integers with four decimals: the integer   *)
(* n stands for n / SC.  IEEE special values that numpy produces instead   *)
(* of raising (nan, +inf, -inf) are the sentinels NaN, PosInf, NegInf.     *)
(* The library primitives np.log, np.sqrt, np.exp, stats.norm.pdf and      *)
(* stats.norm.cdf are computed to that resolution.                         *)
(***************************************************************************)
EXTENDS Integers, Sequences, FiniteSets, TLC

\* What a call gives back: the value it returns or the exception it raises
Returned(v) == [kind |-> "returned", value |-> v]
Raised(e) == [kind |-> "raised", error |-> e]

\* ------------------------------------------------------------------------
\* Fixed-point arithmetic
\* ------------------------------------------------------------------------
SC == 10000

NaN == 2000000000
PosInf == 1900000000
NegInf == -1900000000

\* An assignment "v = e": body(v) with v the value of e, computed once
Bind(e, body(_)) == CHOOSE out \in {body(v) : v \in {e}} : TRUE

IsFin(x) == (x > -1000000000) /\ (x < 1000000000)

Abs(x) == IF x < 0 THEN -x ELSE x

\* a * b for two fixed-point numbers: a * b / SC rounded to the nearest
\* unit, split so that no intermediate product overflows 32 bits
Mul(a, b) ==
    Bind(<<a, b>>, LAMBDA ab :
        LET hi == (ab[1] \div 100) * ab[2]
            lo == (ab[1] % 100) * ab[2]
        IN (hi \div 100) + ((((hi % 100) * 100) + lo + (SC \div 2)) \div SC))

\* sigma ** 2 (the low digits of a large sigma are dropped to stay in range)
Sq(x) == IF Abs(x) < 40000 THEN (x * x) \div SC
         ELSE (x \div 100) * (x \div 100)

\* n / d for d > 0, saturating at +-sat whole units
DivSat(n, d, sat) ==
    IF Abs(n) >= sat * d
    THEN (IF n > 0 THEN sat * SC ELSE -(sat * SC))
    ELSE LET q == n \div d
             m == n % d
         IN (q * SC) + (IF d < 200000 THEN (m * SC) \div d
                        ELSE ((m * 1000) \div d) * 10)

\* numpy float64 division n / d on the extended reals (never raises)
DSat == 40
ExtDiv(n, d) ==
    IF n = NaN \/ d = NaN THEN NaN
    ELSE IF d = 0 THEN (IF n = 0 THEN NaN ELSE IF n > 0 THEN PosInf ELSE NegInf)
    ELSE IF ~IsFin(n) THEN (IF (n > 0) = (d > 0) THEN PosInf ELSE NegInf)
    ELSE IF d < 0 THEN DivSat(-n, -d, DSat)
    ELSE DivSat(n, d, DSat)

RECURSIVE ISqrtIter(_, _)
ISqrtIter(n, g) ==
    Bind((g + (n \div g)) \div 2, LAMBDA h :
        IF h >= g THEN g ELSE ISqrtIter(n, h))

\* np.sqrt(x) for x >= 0
Sqrt(x) == IF x = 0 THEN 0 ELSE ISqrtIter(x * SC, x * SC)

Ln2 == 6931

\* np.log(n / d) for integers n > 0, d > 0
RECURSIVE Ln(_, _)
Ln(n, d) ==
    IF n >= 2 * d THEN Ln2 + Ln(n, 2 * d)
    ELSE IF n < d THEN Ln(2 * n, d) - Ln2
    ELSE Bind(((n - d) * SC) \div (n + d), LAMBDA y :
         Bind(Mul(y, y), LAMBDA y2 :
         Bind(Mul(y2, y), LAMBDA y3 :
         Bind(Mul(y3, y2), LAMBDA y5 :
             2 * (y + (y3 \div 3) + (y5 \div 5) + (Mul(y5, y2) \div 7))))))

\* e ** (-k) for whole k
ExpNegInt(k) ==
    CASE k = 0 -> 10000 [] k = 1 -> 3679 [] k = 2 -> 1353 [] k = 3 -> 498
      [] k = 4 -> 183 [] k = 5 -> 67 [] k = 6 -> 25 [] k = 7 -> 9
      [] k = 8 -> 3 [] k = 9 -> 1 [] OTHER -> 0

\* e ** f for -1 < f <= 0 (Taylor series)
ExpFrac(f) ==
    SC + Mul(f, SC + (Mul(f, SC + (Mul(f, SC + (Mul(f, SC + (Mul(f, SC
       + (Mul(f, SC) \div 6)) \div 5)) \div 4)) \div 3)) \div 2))

\* np.exp(x) for x <= 0
Exp(x) ==
    IF x <= -(10 * SC) THEN 0
    ELSE Mul(ExpNegInt((-x) \div SC), ExpFrac(-((-x) % SC)))

InvSqrt2Pi == 3989

\* stats.norm.pdf(x) for finite x
NormPdf(x) ==
    IF Abs(x) >= 5 * SC THEN 0
    ELSE Mul(InvSqrt2Pi, Exp(-(Mul(x, x) \div 2)))

\* stats.norm.cdf(x) for finite x >= 0 (Abramowitz-Stegun 26.2.17)
NormCdfPos(x) ==
    Bind((SC * SC) \div (SC + Mul(2316, x)), LAMBDA t :
        SC - Mul(NormPdf(x),
                 Mul(t, 3194 + Mul(t, -3566 + Mul(t, 17815
                     + Mul(t, -18213 + Mul(t, 13303)))))))

\* stats.norm.cdf(x) on the extended reals
NormCdf(x) ==
    IF x = NaN THEN NaN
    ELSE IF x = PosInf THEN SC
    ELSE IF x = NegInf THEN 0
    ELSE IF x = 0 THEN SC \div 2
    ELSE IF x > 0 THEN NormCdfPos(x)
    ELSE SC - NormCdfPos(-x)

\* -x on the extended reals
Neg(x) == IF x = NaN THEN NaN ELSE -x

\* ------------------------------------------------------------------------
\* OptionsPricingModel (src/quantitative_models.py)
\* ------------------------------------------------------------------------

LowerOff(s) == s

\* str.lower() on the option-type strings the model uses
Lower(s) ==
    CASE s = "CALL" -> "call" [] s = "Call" -> "call"
      [] s = "PUT" -> "put" [] s = "Put" -> "put"
      [] OTHER -> s

\* np.log(S / K) for numbers numpy divides: log(0) = -inf,
\* log(negative) = nan, S / 0 = +-inf or nan
LogRatio(S, K) ==
    IF K = 0 THEN (IF S > 0 THEN PosInf ELSE NaN)
    ELSE IF S = 0 THEN NegInf
    ELSE IF (S < 0) # (K < 0) THEN NaN
    ELSE Ln(Abs(S), Abs(K))

\* A sigma beyond SigmaMax is kept as SigmaHuge: finite, larger than any
\* value the fixed-point range holds.
SigmaMax == 200 * SC
SigmaHuge == 1500000000

\* sigma * np.sqrt(T)
VolSqrtT(sigma, T) ==
    IF sigma = NaN \/ T < 0 THEN NaN
    ELSE IF sigma = PosInf \/ sigma = SigmaHuge
         THEN (IF T = 0 THEN (IF sigma = PosInf THEN NaN ELSE 0) ELSE sigma)
    ELSE Mul(sigma, Sqrt(T))

\* above this sigma * sqrt(T) the quotient d1 is evaluated in the
\* overflow-safe form  ln(S/K) / den + den / 2
LargeVol == 16 * SC

\* d1 = (np.log(S/K) + (r + 0.5*sigma**2)*T) / (sigma*np.sqrt(T))
D1(S, K, T, r, sigma) ==
    Bind(<<LogRatio(S, K), VolSqrtT(sigma, T)>>, LAMBDA v :
        LET lnSK == v[1]
            den == v[2]
        IN IF lnSK = NaN \/ den = NaN THEN NaN
           ELSE IF sigma = PosInf THEN NaN
           ELSE IF sigma = SigmaHuge
                THEN (IF lnSK = NegInf THEN NegInf ELSE PosInf)
           ELSE IF den >= LargeVol
                THEN (IF ~IsFin(lnSK) THEN lnSK
                      ELSE Bind(DivSat(lnSK, den, DSat) + (den \div 2),
                                LAMBDA d : IF d > DSat * SC THEN DSat * SC ELSE d))
           ELSE IF ~IsFin(lnSK) THEN ExtDiv(lnSK, den)
           ELSE Bind(lnSK + Mul(r + (Sq(sigma) \div 2), T),
                     LAMBDA num : ExtDiv(num, den)))

\* d2 = d1 - sigma*np.sqrt(T)
D2(S, K, T, r, sigma) ==
    Bind(<<D1(S, K, T, r, sigma), VolSqrtT(sigma, T)>>, LAMBDA v :
        LET d1 == v[1]
            den == v[2]
        IN IF d1 = NaN \/ den = NaN THEN NaN
           ELSE IF sigma = SigmaHuge
                THEN (IF IsFin(LogRatio(S, K)) THEN NegInf ELSE d1)
           ELSE IF ~IsFin(d1) THEN d1
           ELSE d1 - den)

\* K * np.exp(-r*T)
DiscountedStrike(K, T, r) == K * Exp(-Mul(r, T))

\* OptionsPricingModel.black_scholes: the value it returns (it validates
\* nothing, so a non-positive input gives nan or a finite number)
black_scholes(S, K, T, r, sigma, option_type) ==
    Bind(<<D1(S, K, T, r, sigma), D2(S, K, T, r, sigma),
           DiscountedStrike(K, T, r)>>, LAMBDA v :
        LET d1 == v[1]
            d2 == v[2]
            Kd == v[3]
        IN IF d1 = NaN \/ d2 = NaN THEN NaN
           ELSE IF Lower(option_type) = "call"
                THEN (S * NormCdf(d1)) - Mul(Kd, NormCdf(d2))
                ELSE Mul(Kd, NormCdf(Neg(d2))) - (S * NormCdf(Neg(d1))))

\* stats.norm.pdf underflows to exactly 0.0 beyond |x| = 38.6
PdfZero == 386000

\* vega = S * np.sqrt(T) * stats.norm.pdf(d1)
Vega(S, T, d1) ==
    IF d1 = NaN THEN NaN
    ELSE IF ~IsFin(d1) THEN 0
    ELSE Mul(S * Sqrt(T), NormPdf(d1))

\* abs(diff) < tolerance, the tolerance given in units of 1e-5
WithinTolerance(diff, tolerance) ==
    Bind(diff, LAMBDA d : (d # NaN) /\ (Abs(d) * 10 < tolerance))

StepSat == 200

\* diff / vega in float64: a zero vega gives +-inf (nan for 0 / 0); a
\* vega too small for the fixed-point scale but not 0.0 gives a finite
\* quotient beyond SigmaMax
StepOf(diff, vega, d1) ==
    IF diff = NaN \/ vega = NaN THEN NaN
    ELSE IF vega = 0
         THEN (IF diff = 0 THEN NaN
               ELSE IF diff < 0 THEN NegInf
               ELSE IF (~IsFin(d1)) \/ (Abs(d1) > PdfZero) THEN PosInf
               ELSE SigmaHuge)
    ELSE IF vega < 0 THEN DivSat(-diff, -vega, StepSat)
    ELSE DivSat(diff, vega, StepSat)

\* sigma + step on the extended reals
AddStep(sigma, step) ==
    IF step = NaN \/ sigma = NaN THEN NaN
    ELSE IF sigma = PosInf THEN (IF step = NegInf THEN NaN ELSE PosInf)
    ELSE IF ~IsFin(step) THEN step
    ELSE IF sigma = SigmaHuge THEN SigmaHuge
    ELSE IF sigma + step > SigmaMax THEN SigmaHuge
    ELSE sigma + step

SigmaFloor == 100

ClampOff(x) == x

\* if sigma <= 0: sigma = 0.01 (nan <= 0 is false)
Clamp(x) == IF x # NaN /\ x <= 0 THEN SigmaFloor ELSE x

\* The loop body after the tolerance test, diff being option_price - price:
\* d1, vega, sigma = sigma + diff / vega, if sigma <= 0: sigma = 0.01
NewtonStep(S, K, T, r, diff, sigma) ==
    Bind(<<diff, D1(S, K, T, r, sigma)>>, LAMBDA v :
        Bind(StepOf(v[1], Vega(S, T, v[2]), v[2]), LAMBDA step :
            Bind(AddStep(sigma, step), LAMBDA next : Clamp(next))))

\* diff = option_price - price
DiffOf(option_price, price) ==
    Bind(price, LAMBDA p : IF p = NaN THEN NaN ELSE option_price - p)

\* sigma = 0.5  # Initial guess
InitialGuess == 5000

\* The Newton-Raphson loop from iteration i with current sigma: the value
\* returned, and whether the tolerance test returned it
RECURSIVE NewtonLoop(_, _, _, _, _, _, _, _, _, _)
NewtonLoop(S, K, T, r, option_price, option_type, tolerance, max_iter, i, sigma) ==
    IF i >= max_iter THEN [sigma |-> sigma, converged |-> FALSE, iterations |-> i]
    ELSE Bind(DiffOf(option_price,
                     black_scholes(S, K, T, r, sigma, option_type)),
              LAMBDA diff :
         IF WithinTolerance(diff, tolerance)
         THEN [sigma |-> sigma, converged |-> TRUE, iterations |-> i]
         ELSE Bind(NewtonStep(S, K, T, r, diff, sigma), LAMBDA next :
              \* nan stays nan and never meets the tolerance
              IF next = NaN
              THEN [sigma |-> NaN, converged |-> FALSE, iterations |-> max_iter]
              ELSE NewtonLoop(S, K, T, r, option_price, option_type,
                              tolerance, max_iter, i + 1, next)))

\* n more passes of the loop of implied_volatility, one after the other
RECURSIVE NewtonPasses(_, _, _, _, _, _, _, _, _)
NewtonPasses(S, K, T, r, option_price, option_type, tolerance, n, loop) ==
    IF n = 0 \/ loop.converged \/ loop.sigma = NaN THEN loop
    ELSE IF n = 1
    THEN NewtonLoop(S, K, T, r, option_price, option_type, tolerance, 1, 0,
                    loop.sigma)
    ELSE Bind(NewtonPasses(S, K, T, r, option_price, option_type, tolerance,
                           n \div 2, loop),
              LAMBDA half :
              NewtonPasses(S, K, T, r, option_price, option_type, tolerance,
                           n - (n \div 2), half))

\* OptionsPricingModel.implied_volatility
implied_volatility(S, K, T, r, option_price, option_type, tolerance, max_iter) ==
    NewtonPasses(S, K, T, r, option_price, option_type, tolerance, max_iter,
                 [sigma |-> InitialGuess, converged |-> FALSE,
                  iterations |-> 0]).sigma

\* ------------------------------------------------------------------------
\* PortfolioRiskModel (src/risk_models.py).  Returns are whole numbers of a
\* common unit, weights are twelfths (WeightUnit of them make 1), values
\* are dollars and shocks percent: the arithmetic is exact, and a quotient
\* is kept as the pair <<numerator, denominator>>, which is nan or
\* infinite when the denominator is 0.
\* ------------------------------------------------------------------------
RECURSIVE SeqSum(_)
SeqSum(s) == IF s = <<>> THEN 0 ELSE Head(s) + SeqSum(Tail(s))

WeightUnit == 12

\* returns_df.cov() without its factor: entry (i, j) times T*T*(T-1),
\* T the number of rows
CovScaled(returns_df, i, j) ==
    LET T == Len(returns_df)
        dev(t, k) == (T * returns_df[t][k])
                        - SeqSum([u \in 1..T |-> returns_df[u][k]])
    IN SeqSum([t \in 1..T |-> dev(t, i) * dev(t, j)])

ComponentVarOff(w, marginal) == marginal

\* component_var = weights * marginal_contributions
ComponentVar(w, marginal) == w * marginal

calculate_portfolio_covariance_off(returns_df, weights) ==
    LET T == Len(returns_df)
        n == Len(weights)
        CovW(i) == SeqSum([j \in 1..n |->
                       Abs(CovScaled(returns_df, i, j)) * weights[j]])
    IN Bind(SeqSum([i \in 1..n |-> weights[i] * CovW(i)]), LAMBDA V :
        [portfolio_variance |->
             <<252 * V, T * T * (T - 1) * WeightUnit * WeightUnit>>,
         risk_contributions |->
             [i \in 1..n |-> <<weights[i] * CovW(i), V>>]])

\* PortfolioRiskModel.calculate_portfolio_covariance: the variance and
\* the risk contributions it returns.  The covariance of a single row is
\* 0 / 0, and so are the contributions to a variance of zero.
calculate_portfolio_covariance(returns_df, weights) ==
    LET T == Len(returns_df)
        n == Len(weights)
        CovW(i) == SeqSum([j \in 1..n |-> CovScaled(returns_df, i, j) * weights[j]])
    IN Bind(SeqSum([i \in 1..n |-> weights[i] * CovW(i)]), LAMBDA V :
        [portfolio_variance |->
             <<252 * V, T * T * (T - 1) * WeightUnit * WeightUnit>>,
         risk_contributions |->
             [i \in 1..n |-> <<ComponentVar(weights[i], CovW(i)), V>>]])

ScenarioValueOff(holdings, market_shock) ==
    (100 * SeqSum(holdings)) + market_shock

\* scenario_value += current_value * (1 + market_shock), in cents
ScenarioValue(holdings, market_shock) ==
    SeqSum([h \in 1..Len(holdings) |-> holdings[h] * (100 + market_shock)])

StressResultsOff(portfolio_data, scenarios, k) ==
    IF k = 0 THEN <<>>
    ELSE [nm \in {scenarios[k].name} |->
             [scenario_value |->
                  ScenarioValue(portfolio_data.holdings, scenarios[k].market_shock),
              value_change |->
                  ScenarioValue(portfolio_data.holdings, scenarios[k].market_shock)
                      - (100 * portfolio_data.total_value)]]

\* The results of the first k scenarios, keyed by scenario name (a later
\* scenario of the same name replaces the earlier one); amounts in cents
RECURSIVE StressResults(_, _, _)
StressResults(portfolio_data, scenarios, k) ==
    IF k = 0 THEN <<>>
    ELSE LET sc == scenarios[k]
             value == ScenarioValue(portfolio_data.holdings, sc.market_shock)
             rest == StressResults(portfolio_data, scenarios, k - 1)
         IN [nm \in (DOMAIN rest) \cup {sc.name} |->
                IF nm = sc.name
                THEN [scenario_value |-> value,
                      value_change |-> value - (100 * portfolio_data.total_value)]
                ELSE rest[nm]]

\* PortfolioRiskModel.stress_test_portfolio: value_change_percent divides
\* by total_value, which raises for a total_value of 0
stress_test_portfolio(portfolio_data, scenarios) ==
    IF scenarios # <<>> /\ portfolio_data.total_value = 0
    THEN Raised("ZeroDivisionError")
    ELSE Returned(StressResults(portfolio_data, scenarios, Len(scenarios)))

\* ------------------------------------------------------------------------
\* PortfolioOptimizer (src/quantitative_models.py).  scipy's minimize is
\* the environment: result is what it reports (success, and the iterate
\* x it stopped at).  Weights are in WeightUnit-ths.
\* ------------------------------------------------------------------------
\* np.ones(n_assets) / n_assets
EqualWeights(n_assets) == [i \in 1..n_assets |-> WeightUnit \div n_assets]

\* return result.x if result.success else np.ones(n_assets) / n_assets
_optimize_sharpe_ratio(n_assets, result) ==
    IF result.success THEN result.x ELSE EqualWeights(n_assets)

_optimize_min_variance(n_assets, result) ==
    IF result.success THEN result.x ELSE EqualWeights(n_assets)

_optimize_max_return_off(n_assets, result) == result.x

_optimize_max_return(n_assets, result) ==
    IF result.success THEN result.x ELSE EqualWeights(n_assets)

\* PortfolioOptimizer.optimize_portfolio
optimize_portfolio(n_assets, method, result) ==
    CASE method = "sharpe" -> _optimize_sharpe_ratio(n_assets, result)
      [] method = "min_variance" -> _optimize_min_variance(n_assets, result)
      [] method = "max_return" -> _optimize_max_return(n_assets, result)
      [] OTHER -> _optimize_sharpe_ratio(n_assets, result)

\* ------------------------------------------------------------------------
\* VolatilityAnalyzer.forecast_volatility (src/quantitative_models.py).
\* Log returns and volatilities are fixed-point, variances are in units of
\* 1 / (SC * SC).  The arch package is the environment: it is missing,
\* fails to fit, or gives a daily variance forecast.
\* ------------------------------------------------------------------------
\* returns = np.log(prices / prices.shift(1)).dropna()
LogReturns(prices) ==
    [t \in 1..(Len(prices) - 1) |-> Ln(prices[t + 1], prices[t])]

\* np.sqrt(variance * 252)
AnnualVol(variance) ==
    IF variance = NaN THEN NaN
    ELSE IF variance = 0 THEN 0
    ELSE ISqrtIter(variance * 252, variance * 252)

\* returns.std() ** 2: the sample variance, nan for fewer than two returns
SampleVar(returns) ==
    LET N == Len(returns)
    IN IF N < 2 THEN NaN
       ELSE Bind(SeqSum(returns), LAMBDA total :
                SeqSum([t \in 1..N |-> ((N * returns[t]) - total)
                                          * ((N * returns[t]) - total)])
                    \div (N * N * (N - 1)))

\* np.full(forecast_days, hist_vol): negative dimensions are not allowed
_historical_forecast(returns, forecast_days) ==
    IF forecast_days < 0 THEN Raised("ValueError")
    ELSE Returned([i \in 1..forecast_days |-> AnnualVol(SampleVar(returns))])

\* lambda_param ** k
RECURSIVE LambdaPow(_)
LambdaPow(k) == IF k = 0 THEN SC ELSE Mul(9400, LambdaPow(k - 1))

\* returns.ewm(alpha=1-lambda_param).var().iloc[-1]: the bias-corrected
\* exponentially weighted variance, nan for a single return
EwmVar(returns) ==
    LET N == Len(returns)
    IN Bind(SeqSum([t \in 1..N |-> LambdaPow(N - t)]), LAMBDA total :
       Bind([t \in 1..N |-> (LambdaPow(N - t) * SC) \div total], LAMBDA w :
       Bind(SeqSum([t \in 1..N |-> Mul(w[t], returns[t])]), LAMBDA mean :
       Bind(SC - SeqSum([t \in 1..N |-> Mul(w[t], w[t])]), LAMBDA unbias :
           IF unbias <= 0 THEN NaN
           ELSE DivSat(SeqSum([t \in 1..N |->
                           Mul(w[t], (returns[t] - mean) * (returns[t] - mean))]),
                       unbias, SC)))))

\* VolatilityAnalyzer._ewma_forecast: iloc[-1] of no returns is an
\* IndexError; range(forecast_days) is empty for forecast_days <= 0
_ewma_forecast(returns, forecast_days) ==
    IF returns = <<>> THEN Raised("IndexError")
    ELSE Bind(EwmVar(returns), LAMBDA ewma_var :
             Returned([i \in 1..forecast_days |->
                 IF ewma_var = NaN THEN NaN
                 ELSE AnnualVol(Mul(ewma_var, LambdaPow(i - 1)))]))

_garch_forecast_off(returns, forecast_days, estimator) ==
    IF estimator.outcome = "ok"
    THEN Returned([i \in 1..forecast_days |-> AnnualVol(estimator.variance)])
    ELSE _ewma_forecast(returns, forecast_days)

\* VolatilityAnalyzer._garch_forecast: any exception of the import, the
\* fit or the forecast is answered by the historical forecast
_garch_forecast(returns, forecast_days, estimator) ==
    IF estimator.outcome = "ok"
    THEN Returned([i \in 1..forecast_days |-> AnnualVol(estimator.variance)])
    ELSE _historical_forecast(returns, forecast_days)

\* VolatilityAnalyzer.forecast_volatility
forecast_volatility(prices, method, forecast_days, estimator) ==
    CASE method = "garch" ->
             _garch_forecast(LogReturns(prices), forecast_days, estimator)
      [] method = "ewma" -> _ewma_forecast(LogReturns(prices), forecast_days)
      [] OTHER -> _historical_forecast(LogReturns(prices), forecast_days)

\* ------------------------------------------------------------------------
\* VolatilityAnalyzer.calculate_implied_volatility_surface
\* (src/quantitative_models.py).  The market data source is the
\* environment: it gives the current price and, for each expiry, the days
\* left and the quoted calls and puts (strike in dollars, bid and ask in
\* 1 / SC dollars), or fails.
\* ------------------------------------------------------------------------
\* return None
NoIv == 1800000000

\* One pass of the loop of _calculate_iv at the rate 0.05; loop is
\* <<sigma, returned>>.  'call' is matched as written, anything else is a
\* put; nan stays nan
CalcIvPass(S, K, T, option_price, option_type, loop) ==
    IF loop[2] \/ loop[1] = NaN THEN loop
    ELSE Bind(DiffOf(option_price,
                     black_scholes(S, K, T, 500, loop[1],
                         IF option_type = "call" THEN "call" ELSE "put")),
              LAMBDA diff :
         \* if abs(diff) < 1e-5: return sigma
         IF WithinTolerance(diff, 1) THEN <<loop[1], TRUE>>
         ELSE <<NewtonStep(S, K, T, 500, diff, loop[1]), FALSE>>)

\* n passes of the loop, one after the other
RECURSIVE CalcIvLoop(_, _, _, _, _, _, _)
CalcIvLoop(S, K, T, option_price, option_type, n, loop) ==
    IF n = 0 THEN loop
    ELSE IF n = 1 THEN CalcIvPass(S, K, T, option_price, option_type, loop)
    ELSE Bind(CalcIvLoop(S, K, T, option_price, option_type, n \div 2, loop),
              LAMBDA half :
              CalcIvLoop(S, K, T, option_price, option_type, n - (n \div 2), half))

\* VolatilityAnalyzer._calculate_iv: for i in range(50), then
\* return sigma if 0.1 < sigma < 2.0 else None
_calculate_iv(S, K, T, option_price, option_type) ==
    Bind(CalcIvLoop(S, K, T, option_price, option_type, 50, <<InitialGuess, FALSE>>),
         LAMBDA loop :
         IF loop[2] THEN loop[1]
         ELSE IF 1000 < loop[1] /\ loop[1] < 20000 THEN loop[1] ELSE NoIv)

UsableOff(quote) == quote.ask > 0

\* if call['bid'] > 0 and call['ask'] > 0
Usable(quote) == (quote.bid > 0) /\ (quote.ask > 0)

\* The rows the first k quotes of one side of a chain add to iv_data
RECURSIVE IvData(_, _, _, _, _)
IvData(S, T, quotes, option_type, k) ==
    IF k = 0 THEN <<>>
    ELSE IF ~Usable(quotes[k]) THEN IvData(S, T, quotes, option_type, k - 1)
    ELSE Bind(_calculate_iv(S, quotes[k].strike, T,
                            (quotes[k].bid + quotes[k].ask) \div 2, option_type),
              LAMBDA iv :
         \* if iv and 0.1 < iv < 2.0
         IF iv # NoIv /\ iv # 0 /\ 1000 < iv /\ iv < 20000
         THEN Append(IvData(S, T, quotes, option_type, k - 1),
                     [strike |-> quotes[k].strike, iv |-> iv,
                      type |-> option_type,
                      moneyness |-> <<quotes[k].strike, S>>])
         ELSE IvData(S, T, quotes, option_type, k - 1))

\* iv_surface after the first k expiries: T = days / 365, an expiry with
\* T <= 0 or without rows adds nothing
RECURSIVE IvSurface(_, _, _)
IvSurface(current_price, expirations, k) ==
    IF k = 0 THEN <<>>
    ELSE Bind(<<IvSurface(current_price, expirations, k - 1),
                ((expirations[k].days * SC) + 182) \div 365>>, LAMBDA v :
         IF v[2] <= 0 THEN v[1]
         ELSE Bind(IvData(current_price, v[2], expirations[k].calls, "call",
                          Len(expirations[k].calls))
                   \o IvData(current_price, v[2], expirations[k].puts, "put",
                             Len(expirations[k].puts)),
                   LAMBDA iv_data :
              IF iv_data = <<>> THEN v[1]
              ELSE [d \in (DOMAIN v[1]) \cup {expirations[k].exp_date} |->
                       IF d = expirations[k].exp_date THEN iv_data ELSE v[1][d]]))

\* VolatilityAnalyzer.calculate_implied_volatility_surface: without
\* expiration_dates the first three listed expiries are used; an exception
\* of the data source (fails_at is the expiry whose chain cannot be
\* fetched, 0 for none) gives the empty surface
calculate_implied_volatility_surface(current_price, expiration_dates, listed, fails_at) ==
    Bind(IF expiration_dates # <<>> THEN expiration_dates
         ELSE SubSeq(listed, 1, IF Len(listed) < 3 THEN Len(listed) ELSE 3),
         LAMBDA expirations :
        IF fails_at \in DOMAIN expirations THEN <<>>
        ELSE IvSurface(current_price, expirations, Len(expirations)))

\* ------------------------------------------------------------------------
\* PriceForecaster (src/quantitative_models.py).  The market data source
\* gives the current price, the listed expiries with their chains, and the
\* closes of the last year, or fails at one of its calls.
\* ------------------------------------------------------------------------
\* return None
ReturnedNone == [kind |-> "none", value |-> 0]

\* np.exp(x): the model's range ends at e^6 (float64's at e^709), and
\* beyond it the result is inf
ExpReal(x) ==
    IF x = NaN THEN NaN
    ELSE IF x <= 0 THEN Exp(x)
    ELSE IF x >= 6 * SC THEN PosInf
    ELSE (SC * SC) \div Exp(-x)

\* The quantile of the lower tail: stats.norm.ppf((1 - confidence_level) / 2)
ZScoreOff(confidence_level) ==
    CASE confidence_level = 5000 -> -6745
      [] confidence_level = 9000 -> -16449
      [] confidence_level = 9500 -> -19600
      [] confidence_level = 9900 -> -25758

\* stats.norm.ppf((1 + confidence_level) / 2)
ZScore(confidence_level) ==
    CASE confidence_level = 5000 -> 6745
      [] confidence_level = 9000 -> 16449
      [] confidence_level = 9500 -> 19600
      [] confidence_level = 9900 -> 25758

\* current_price * np.exp(exponent), in 1 / SC dollars
PriceAt(current_price, exponent) ==
    Bind(ExpReal(exponent), LAMBDA e :
        IF IsFin(e) THEN current_price * e ELSE e)

\* The bounds and the expected price both paths compute from their drift
\* and volatility: v is <<forecast_days / 365, z_score * vol>>
PriceRange(current_price, drift, vol, forecast_days, confidence_level) ==
    IF vol = NaN \/ drift = NaN
    THEN [expected_price |-> NaN, lower_bound |-> NaN, upper_bound |-> NaN]
    ELSE Bind(<<((forecast_days * SC) + 182) \div 365,
                Mul(ZScore(confidence_level), vol)>>, LAMBDA v :
         [expected_price |-> PriceAt(current_price, Mul(drift, v[1])),
          lower_bound |-> PriceAt(current_price, Mul(drift - v[2], v[1])),
          upper_bound |-> PriceAt(current_price, Mul(drift + v[2], v[1]))])

\* returns.std() * np.sqrt(252) of the log returns of the closes
HistVol(closes) == AnnualVol(SampleVar(LogReturns(closes)))

\* PriceForecaster._historical_forecast: the last close is the price, an
\* empty history raises inside the try, and the drift is
\* returns.mean() * 252 (nan without a return)
PriceForecaster_historical_forecast(market, forecast_days, confidence_level) ==
    IF market.fails = "history" \/ market.closes = <<>> THEN ReturnedNone
    ELSE Bind(<<market.closes[Len(market.closes)],
                IF Len(market.closes) < 2 THEN NaN
                ELSE (SeqSum(LogReturns(market.closes)) * 252)
                         \div (Len(market.closes) - 1),
                HistVol(market.closes)>>, LAMBDA v :
         Bind(PriceRange(v[1], v[2], v[3], forecast_days, confidence_level),
              LAMBDA range :
              Returned([current_price |-> v[1],
                        expected_price |-> range.expected_price,
                        lower_bound |-> range.lower_bound,
                        upper_bound |-> range.upper_bound,
                        confidence_level |-> confidence_level,
                        implied_volatility |-> v[3],
                        forecast_days |-> forecast_days,
                        method |-> "historical"])))

\* iv_values of the first k quotes of one side of the nearest chain
RECURSIVE IvValues(_, _, _, _, _)
IvValues(S, T, quotes, option_type, k) ==
    IF k = 0 THEN <<>>
    ELSE IF ~Usable(quotes[k]) THEN IvValues(S, T, quotes, option_type, k - 1)
    ELSE Bind(implied_volatility(S, quotes[k].strike, T, 500,
                                 (quotes[k].bid + quotes[k].ask) \div 2,
                                 option_type, 1, 100),
              LAMBDA iv :
         IF iv # 0 /\ 1000 < iv /\ iv < 20000
         THEN Append(IvValues(S, T, quotes, option_type, k - 1), iv)
         ELSE IvValues(S, T, quotes, option_type, k - 1))

\* iv_values of the nearest expiry, T = _days_to_expiry(nearest_exp) / 365
NearestIvValues(market) ==
    Bind(((market.options[1].days * SC) + 182) \div 365, LAMBDA T :
        IvValues(market.current_price, T, market.options[1].calls, "call",
                 Len(market.options[1].calls))
        \o IvValues(market.current_price, T, market.options[1].puts, "put",
                    Len(market.options[1].puts)))

\* PriceForecaster.forecast_price_range: avg_iv is the mean of iv_values,
\* or the historical volatility computed in place when there is none
forecast_price_range(market, forecast_days, confidence_level) ==
    IF market.fails = "info" \/ market.current_price = 0 THEN ReturnedNone
    ELSE IF market.options = <<>>
    THEN PriceForecaster_historical_forecast(market, forecast_days,
                                             confidence_level)
    ELSE IF market.fails = "chain" THEN ReturnedNone
    ELSE Bind(NearestIvValues(market),
              LAMBDA iv_values :
         IF iv_values = <<>> /\ market.fails = "history" THEN ReturnedNone
         ELSE Bind(IF iv_values # <<>>
                   THEN SeqSum(iv_values) \div Len(iv_values)
                   ELSE HistVol(market.closes), LAMBDA avg_iv :
              Bind(PriceRange(market.current_price,
                              IF avg_iv = NaN THEN NaN
                              ELSE 500 - (Sq(avg_iv) \div 2),
                              avg_iv, forecast_days, confidence_level),
                   LAMBDA range :
                   Returned([current_price |-> market.current_price,
                             expected_price |-> range.expected_price,
                             lower_bound |-> range.lower_bound,
                             upper_bound |-> range.upper_bound,
                             confidence_level |-> confidence_level,
                             implied_volatility |-> avg_iv,
                             forecast_days |-> forecast_days]))))

\* ------------------------------------------------------------------------
\* PortfolioRiskModel.price_probability_density (src/risk_models.py).
\* Prices are in 1 / SC dollars; of the result the model keeps the grid,
\* the cumulative distribution on it and mu and sigma.
\* ------------------------------------------------------------------------
GridHalfWidthOff(sigma) == 2 * sigma

\* the 3 * sigma of min_price and max_price
GridHalfWidth(sigma) == 3 * sigma

\* np.linspace(lo, hi, n_points)
Linspace(lo, hi, n_points) ==
    [k \in 1..n_points |->
        IF n_points = 1 THEN lo ELSE lo + (((hi - lo) * (k - 1)) \div (n_points - 1))]

\* stats.lognorm.cdf(price, sigma, scale=np.exp(mu)) with
\* mu = np.log(current_price) + drift_t
LogNormCdf(price, current_price, drift_t, sigma) ==
    NormCdf(ExtDiv(Ln(price \div current_price, SC) - drift_t, sigma))

price_probability_density(current_price, volatility, time_horizon, n_points) ==
    Bind(((time_horizon * SC) + 182) \div 365, LAMBDA time_to_horizon :
    Bind(<<Mul(500 - (Sq(volatility) \div 2), time_to_horizon),
           Mul(volatility, Sqrt(time_to_horizon))>>, LAMBDA v :
    Bind(Linspace(current_price * ExpReal(-GridHalfWidth(v[2])),
                  current_price * ExpReal(GridHalfWidth(v[2])), n_points),
         LAMBDA price_range :
         [price_range |-> price_range,
          cdf_values |-> [k \in 1..n_points |->
                             LogNormCdf(price_range[k], current_price,
                                        v[1], v[2])],
          distribution_params |->
              [mu |-> Ln(current_price, 1) + v[1], sigma |-> v[2]]])))

\* ------------------------------------------------------------------------
\* PortfolioRiskModel.monte_carlo_portfolio_simulation (src/risk_models.py)
\* for one asset.  numpy's global generator is a seed and the number of
\* deviates drawn since it was seeded; the deviate at a position of a
\* stream is a fixed function of the two.
\* ------------------------------------------------------------------------
\* np.random.seed(seed)
Seeded(seed) == [seed |-> seed, pos |-> 0]

\* The k-th standard normal deviate drawn from generator state g
Deviate(g, k) ==
    <<-15341, -8871, -4888, -1573, 1573, 4888, 8871, 15341>>[
        ((g.seed + (3 * (g.pos + k))) % 8) + 1]

\* final_values when the deviates are drawn from generator state g:
\* correlated_returns has shape (time_horizon, n_simulations), each entry
\* the annualised mean plus the annualised deviation times a deviate, and
\* a path compounds initial_value = 100000 by the exponential of the sum
\* of its weighted returns
FinalValues(g, returns_df, weights, n_simulations, time_horizon) ==
    Bind(<<(SeqSum(returns_df) * 252) \div Len(returns_df),
           AnnualVol(SampleVar(returns_df))>>, LAMBDA v :
        [s \in 1..n_simulations |->
            Bind(ExpReal(SeqSum([t \in 1..time_horizon |->
                        Mul(weights[1],
                            v[1] + Mul(v[2], Deviate(g,
                                ((t - 1) * n_simulations) + s)))])),
                 LAMBDA e : IF IsFin(e) THEN 1000 * (e \div 100) ELSE e)])

\* np.mean: nan for no value, inf when a value is inf
MeanOf(values) ==
    IF values = <<>> THEN NaN
    ELSE IF \E i \in DOMAIN values : ~IsFin(values[i]) THEN PosInf
    ELSE SeqSum(values) \div Len(values)

\* The values in ascending order
RECURSIVE SortedValues(_)
SortedValues(values) ==
    IF values = <<>> THEN <<>>
    ELSE LET m == CHOOSE i \in DOMAIN values :
                      \A j \in DOMAIN values : values[i] <= values[j]
         IN  <<values[m]>>
                 \o SortedValues([i \in 1..(Len(values) - 1) |->
                                     IF i < m THEN values[i] ELSE values[i + 1]])

\* a + (b - a) * t of two neighbours in the order, t in hundredths:
\* inf - inf is nan, and so is inf * 0
Lerp(a, b, t) ==
    IF IsFin(a) /\ IsFin(b) THEN a + (((b - a) * t) \div 100)
    ELSE IF IsFin(a) /\ t > 0 /\ t < 50 THEN PosInf
    ELSE NaN

\* The percentile of the upper tail, np.percentile(final_values,
\* confidence * 100)
PercentileOff(values, q) ==
    Bind(SortedValues(values), LAMBDA sorted :
        LET h == (Len(values) - 1) * (100 - q)
            previous == (h \div 100) + 1
            next == IF previous < Len(values) THEN previous + 1 ELSE previous
        IN  Lerp(sorted[previous], sorted[next], h % 100))

\* np.percentile(final_values, q) for a whole q: the value at the
\* position (n - 1) * q / 100 of the sorted values, interpolated
\* linearly between its two neighbours
Percentile(values, q) ==
    Bind(SortedValues(values), LAMBDA sorted :
        LET h == (Len(values) - 1) * q
            previous == (h \div 100) + 1
            next == IF previous < Len(values) THEN previous + 1 ELSE previous
        IN  Lerp(sorted[previous], sorted[next], h % 100))

\* np.mean(final_values[final_values <= var]): no value is <= nan
TailMean(values, var) ==
    IF var = NaN THEN NaN
    ELSE MeanOf(SelectSeq(values, LAMBDA value : value <= var))

\* PortfolioRiskModel.monte_carlo_portfolio_simulation: the seed is set to
\* 42 before the draw
monte_carlo_portfolio_simulation(returns_df, weights, n_simulations, time_horizon) ==
    Bind(FinalValues(Seeded(42), returns_df, weights, n_simulations,
                     time_horizon), LAMBDA final_values :
        [simulation_results |-> [final_values |-> final_values],
         risk_metrics |->
             [mean_final_value |-> MeanOf(final_values),
              var_metrics |->
                  [var_90 |-> Percentile(final_values, 10),
                   var_95 |-> Percentile(final_values, 5),
                   var_99 |-> Percentile(final_values, 1)],
              cvar_metrics |->
                  [cvar_90 |-> TailMean(final_values,
                                        Percentile(final_values, 10)),
                   cvar_95 |-> TailMean(final_values,
                                        Percentile(final_values, 5)),
                   cvar_99 |-> TailMean(final_values,
                                        Percentile(final_values, 1))],
              probability_of_loss |->
                  (Cardinality({s \in 1..n_simulations :
                                   final_values[s] < 100000}) * SC)
                      \div n_simulations]])

\* ------------------------------------------------------------------
\* MarketDataService: quotes of several symbols fetched by a pool of
\* worker threads.  A data point is the symbol and its price (in
\* dollars); the dictionaries of the service are functions of the symbol.
\* ------------------------------------------------------------------
\* get_stock_data returned None
NoDataPoint == [symbol |-> "none", price |-> 0]

\* results = {}
EmptyDict == [s \in {} |-> NoDataPoint]

\* _is_cached: caching is on, the key is in the cache, and the entry is
\* younger than cache_ttl (fresh is the reading of the clock)
_is_cached(enable_caching, price_cache, key, fresh) ==
    enable_caching /\ key \in DOMAIN price_cache /\ fresh

\* get_stock_data after the cache was missed: the data point built from the
\* history yfinance gave, None when the history is empty or when anything
\* raised (the except clause logs and returns None)
get_stock_data(symbol, outcome, price) ==
    IF outcome = "ok" THEN [symbol |-> symbol, price |-> price]
    ELSE NoDataPoint

\* indices, in the order of the dictionary in get_market_indices
indices ==
    <<[symbol |-> "^GSPC", name |-> "S&P 500"],
      [symbol |-> "^IXIC", name |-> "NASDAQ"],
      [symbol |-> "^DJI", name |-> "Dow Jones"],
      [symbol |-> "^VIX", name |-> "VIX"]>>

\* get_market_indices: get_stock_data for each index, from the cache or
\* from a fetch that ends as outcomes says; every data point that came
\* back is renamed (data_point.symbol = name) and filed under the name.
\* The data point is the object get_stock_data has put in price_cache,
\* so the cache entry carries the new name too.
get_market_indices(enable_caching, price_cache, outcomes, fresh) ==
    LET got(i) ==
            IF _is_cached(enable_caching, price_cache, indices[i].symbol,
                          fresh)
            THEN price_cache[indices[i].symbol]
            ELSE get_stock_data(indices[i].symbol, outcomes[i], 101)
        found == { i \in DOMAIN indices : got(i) # NoDataPoint }
        renamed(i) == [got(i) EXCEPT !.symbol = indices[i].name]
        at(key) ==
            CHOOSE i \in found :
                key \in {indices[i].symbol, indices[i].name}
    IN  [results |->
             [name \in { indices[i].name : i \in found } |->
                 renamed(at(name))],
         price_cache |->
             IF enable_caching
             THEN [symbol \in DOMAIN price_cache
                       \cup { indices[i].symbol : i \in found } |->
                      IF \E i \in found : indices[i].symbol = symbol
                      THEN renamed(at(symbol))
                      ELSE price_cache[symbol]]
             ELSE price_cache]

\* future_to_symbol: one submitted task for each entry of symbols; hit
\* records that the task found a valid cache entry when it started
future_to_symbol(symbols) ==
    [i \in 1..Len(symbols) |->
        [symbol |-> symbols[i], status |-> "queued", data |-> NoDataPoint,
         hit |-> FALSE]]

\* A merge that forgets what it collected when a task gave nothing
MergeResultOff(results, symbol, data_point) ==
    IF data_point # NoDataPoint
    THEN (symbol :> data_point) @@ results
    ELSE EmptyDict

\* if data_point: results[symbol] = data_point
MergeResult(results, symbol, data_point) ==
    IF data_point # NoDataPoint
    THEN (symbol :> data_point) @@ results
    ELSE results

\* ------------------------------------------------------------------
\* Sharpe ratios: PerformanceTracker and PortfolioOptimizer.  Returns
\* are in 1 / SC, ratios in 1 / SC.
\* ------------------------------------------------------------------
\* calculate_sharpe_ratio returned None
NoneValue == 1700000000

RECURSIVE SumSq(_)
SumSq(s) == IF s = <<>> THEN 0 ELSE (Head(s) * Head(s)) + SumSq(Tail(s))

\* len(x) * np.std(x): the root of n * sum(x^2) - sum(x)^2
SpreadRoot(returns) ==
    Bind((Len(returns) * SumSq(returns)) - (SeqSum(returns) * SeqSum(returns)),
         LAMBDA d : IF d <= 0 THEN 0 ELSE ISqrtIter(d, d))

\* (mean - rf / 252) / std * sqrt(252) with the population deviation:
\* (252 * sum - n * rf) / (sqrt(252) * root), and SC / sqrt(252) = 629.94
AnnualizedRatio(returns, risk_free_rate, root) ==
    (((252 * SeqSum(returns)) - (Len(returns) * risk_free_rate)) * 630)
        \div root

\* PerformanceTracker.calculate_sharpe_ratio: None under 30 returns, 0 for
\* returns that do not vary
calculate_sharpe_ratio(daily_returns, risk_free_rate) ==
    IF Len(daily_returns) < 30 THEN NoneValue
    ELSE Bind(SpreadRoot(daily_returns), LAMBDA root :
             IF root = 0 THEN 0
             ELSE AnnualizedRatio(daily_returns, risk_free_rate, root))

\* The returns logged in one run of the model
MaxLogged == 2

\* The empty dict of the metrics cache
NoMetrics == [kind |-> "empty"]

\* _get_empty_metrics: every key 0
EmptyMetrics ==
    [kind |-> "metrics", sharpe_ratio |-> 0, total_return |-> 0,
     num_trading_days |-> 0]

\* "x or 0" of Python
OrZero(x) == IF x = NoneValue THEN 0 ELSE x

\* calculate_comprehensive_metrics past the cache: of the metrics the
\* model keeps total_return, sharpe_ratio and num_trading_days
ComprehensiveMetrics(daily_returns) ==
    IF daily_returns = <<>> THEN EmptyMetrics
    ELSE [kind |-> "metrics",
          sharpe_ratio |-> OrZero(calculate_sharpe_ratio(daily_returns, 200)),
          total_return |-> SeqSum(daily_returns),
          num_trading_days |-> Len(daily_returns)]

\* (returns * weights).sum(axis=1) with the equal weights that
\* weights=None stands for
PortfolioReturns(returns) ==
    [t \in 1..Len(returns) |-> SeqSum(returns[t]) \div Len(returns[t])]

\* PortfolioOptimizer.calculate_portfolio_metrics with risk_free_rate 0.05:
\* pandas' mean and std (the sample deviation) are nan for no row, std is
\* nan for one row, and a zero std divides to an infinity or nan.  Of the
\* metrics the model keeps expected_return and sharpe_ratio.
calculate_portfolio_metrics(returns) ==
    Bind(PortfolioReturns(returns), LAMBDA portfolio_returns :
    Bind(SpreadRoot(portfolio_returns), LAMBDA root :
        LET n == Len(portfolio_returns)
            excess == (252 * SeqSum(portfolio_returns)) - (n * 500)
        IN [expected_return |->
                IF n = 0 THEN NaN
                ELSE (252 * SeqSum(portfolio_returns)) \div n,
            sharpe_ratio |->
                IF n < 2 THEN NaN
                ELSE IF root = 0
                THEN (IF excess = 0 THEN NaN
                      ELSE IF excess > 0 THEN PosInf ELSE NegInf)
                ELSE Mul(AnnualizedRatio(portfolio_returns, 500, root),
                         Sqrt(((n - 1) * SC) \div n))]))

\* ------------------------------------------------------------------
\* The program as a state machine: one call of one operation at a time.
\* req is the call and its arguments, ret what it gave back, pc the
\* position of the call, sigma and iter the locals of the Newton-Raphson
\* loop.  path records how the result was produced ("converged",
\* "fallback", or "direct" for an operation with no recovery path) and
\* prev the previous call of the same caller, so that two results can be
\* compared.  rng is numpy's global generator; pool holds the tasks of
\* get_multiple_stocks, the results collected so far and the service's
\* price cache, cached_metrics and daily_returns the metrics cache and the
\* in-memory returns of the PerformanceTracker.
\* ------------------------------------------------------------------
VARIABLES pc, req, ret, path, sigma, iter, prev, rng, pool, cached_metrics,
          daily_returns, DEMO_USERS, USER_PORTFOLIOS, USER_HOLDINGS, ledger,
          clock, market_service

\* The MarketDataService of src/market_data.py and the clock it reads
quotes == <<clock, market_service>>

\* The dictionaries of the application, with the ledger of what its
\* clients were told
stores == <<DEMO_USERS, USER_PORTFOLIOS, USER_HOLDINGS, ledger>>

\* The state the services keep between calls, apart from the generator
\* and the pool
services == <<cached_metrics, daily_returns, stores, quotes>>

vars == <<pc, req, ret, path, sigma, iter, prev, rng, pool, services>>

NoResult == [kind |-> "none"]
NoCall == [op |-> "none"]

\* tolerance=1e-5, max_iter=100 (the defaults of implied_volatility)
ToleranceDefault == 1
MaxIterDefault == 100

\* The spellings of the option type a caller may pass
OptionTypes == {"call", "put", "CALL", "Call", "PUT", "straddle", ""}

\* black_scholes calls with positive inputs
PricingRequests ==
    [op : {"black_scholes"}, S : {100}, K : {80, 100, 125},
     T : {822, 2500, 10000}, r : {0, 500},
     sigma : {500, 2000, 5000, 15000}, option_type : OptionTypes]

\* black_scholes calls in which S, K, T or sigma may be zero or negative
DegenerateRequests ==
    [op : {"black_scholes"}, S : {-100, 0, 100}, K : {-100, 0, 100},
     T : {-2500, 0, 2500}, r : {500}, sigma : {-2000, 0, 2000},
     option_type : {"call", "put"}]

\* The volatilities whose model prices are handed back to
\* implied_volatility: 0.05, 0.2, 0.5, 1.0 and 1.5
RoundTripSigmas == {500, 2000, 5000, 10000, 15000}

\* implied_volatility calls on a price black_scholes produced
RoundTripRequests ==
    { [op |-> "implied_volatility", S |-> 100, K |-> K, T |-> T, r |-> 500,
       option_price |-> black_scholes(100, K, T, 500, s0, ty),
       option_type |-> ty, tolerance |-> ToleranceDefault,
       max_iter |-> MaxIterDefault] :
      K \in {50, 200}, T \in {822, 2500}, s0 \in RoundTripSigmas,
      ty \in {"call", "put"} }

\* implied_volatility calls on a quoted price, which no volatility need
\* reproduce (0, or more than the stock itself), with the caller's own
\* tolerance and iteration budget
QuoteRequests ==
    { [op |-> "implied_volatility", S |-> 100, K |-> 100, T |-> 2500, r |-> 500,
       option_price |-> p, option_type |-> ty, tolerance |-> tol,
       max_iter |-> m] :
      p \in {0, 30000, 1500000,
             black_scholes(100, 100, 2500, 500, InitialGuess, "call")},
      ty \in {"call", "put"}, tol \in {ToleranceDefault, 10000},
      m \in {0, 1, 3, MaxIterDefault} }

\* calculate_portfolio_covariance calls: two assets over one or two days
\* and three assets over two or three days, with weights that sum to 1
\* (some of them negative) or do not
CovarianceRequests ==
    LET Rows == {<<a, b>> : a \in {-1, 0, 2}, b \in {-1, 0, 2}}
    IN [op : {"calculate_portfolio_covariance"},
        returns_df : {<<x>> : x \in Rows} \cup {<<x, y>> : x \in Rows, y \in Rows},
        weights : {<<6, 6>>, <<12, 0>>, <<3, 9>>, <<15, -3>>, <<9, 9>>}]
       \cup
       [op : {"calculate_portfolio_covariance"},
        returns_df : {<<<<1, 0, -1>>, <<0, 2, 1>>, <<2, -1, 0>>>>,
                      <<<<1, 1, 1>>, <<1, 1, 1>>>>,
                      <<<<1, 2, 3>>, <<2, 4, 6>>>>},
        weights : {<<6, 3, 3>>, <<0, 0, 12>>, <<-12, 12, 12>>}]
       \cup
       \* three periods of two assets held in equal weights
       LET Periods == {<<1, 0>>, <<0, 1>>, <<-1, -1>>, <<1, 1>>, <<-1, 1>>}
       IN [op : {"calculate_portfolio_covariance"},
           returns_df : {<<x, y, z>> : x \in Periods, y \in Periods,
                                       z \in Periods},
           weights : {<<6, 6>>}]

\* stress_test_portfolio calls: the caller gives the holdings and the
\* total value separately
StressRequests ==
    LET Scenarios == [name : {"crash", "rally"}, market_shock : {-100, -20, 10}]
    IN [op : {"stress_test_portfolio"},
        portfolio_data : [holdings : {<<>>, <<100>>, <<100, 250>>, <<60, 0, 40>>},
                          total_value : {0, 100, 150, 350}],
        scenarios : {<<>>} \cup {<<x>> : x \in Scenarios}
                        \cup {<<x, y>> : x \in Scenarios, y \in Scenarios}]

\* optimize_portfolio calls: one to four assets, the four ways a method
\* name is handled, and a solver that stops at the equal weights, at a
\* corner or at an infeasible point, reporting success or not
OptimizeRequests ==
    LET Stop(n, at) == [i \in 1..n |->
            CASE at = "equal" -> WeightUnit \div n
              [] at = "corner" -> IF i = 1 THEN WeightUnit ELSE 0
              [] OTHER -> 0]
    IN { [op |-> "optimize_portfolio", n_assets |-> n, method |-> m,
          result |-> [success |-> ok, x |-> Stop(n, at)]] :
         n \in {1, 2, 3, 4},
         m \in {"sharpe", "min_variance", "max_return", "kelly"},
         ok \in BOOLEAN, at \in {"equal", "corner", "origin"} }

\* forecast_volatility calls: one to four prices, a horizon that may be
\* zero or negative, and an arch package that is missing, fails to fit
\* or (for a proper horizon) forecasts a daily variance of 0.0004
ForecastRequests ==
    { r \in [op : {"forecast_volatility"},
             prices : {<<100>>, <<100, 105>>, <<100, 105, 98>>,
                       <<100, 105, 98, 110>>, <<100, 100, 100>>},
             method : {"garch", "ewma", "historical", "parkinson"},
             forecast_days : {-1, 0, 1, 3},
             estimator : [outcome : {"unavailable", "fit_fails"}, variance : {0}]
                            \cup [outcome : {"ok"}, variance : {40000}]] :
      (r.estimator.outcome = "ok") => (r.forecast_days >= 1) }

\* Quotes of a 30-day chain on a stock at 100: a call whose mid price
\* gives a volatility near 0.24, one without a bid whose ask alone would
\* give 0.23, and one whose volatility is just under 0.1
CallsNear ==
    << [strike |-> 100, bid |-> 29000, ask |-> 31000],
       [strike |-> 105, bid |-> 0, ask |-> 20000],
       [strike |-> 102, bid |-> 4000, ask |-> 6000] >>

\* a call quoted above the stock (no volatility gives that price), one
\* without an ask, and one with a volatility near 0.23
CallsWide ==
    << [strike |-> 110, bid |-> 1400000, ask |-> 1600000],
       [strike |-> 95, bid |-> 50000, ask |-> 0],
       [strike |-> 105, bid |-> 9000, ask |-> 11000] >>

\* calls that are all left out
CallsOut ==
    << [strike |-> 102, bid |-> 4000, ask |-> 6000],
       [strike |-> 100, bid |-> -1, ask |-> 30000] >>

PutsNear ==
    << [strike |-> 100, bid |-> 27000, ask |-> 29000],
       [strike |-> 95, bid |-> 0, ask |-> 18000],
       [strike |-> 98, bid |-> 2000, ask |-> 4000] >>

\* An expiry: the days timedelta.days gives for it, and its chain
Expiries(exp_date) ==
    [exp_date : {exp_date}, days : {-5, 0, 30},
     calls : {<<>>, CallsNear, CallsWide, CallsOut}, puts : {<<>>, PutsNear}]

SurfaceRequests ==
    [op : {"calculate_implied_volatility_surface"}, current_price : {100},
     expiration_dates : { <<e>> : e \in Expiries("2026-12-01") },
     listed : {<<>>}, fails_at : {0}]
    \cup
    { r \in [op : {"calculate_implied_volatility_surface"},
             current_price : {100},
             expiration_dates :
                 { <<e, f>> : e \in Expiries("2026-12-01"),
                              f \in Expiries("2026-12-18") },
             listed : {<<>>}, fails_at : {0, 2}] :
        /\ r.expiration_dates[1].puts = <<>>
        /\ r.expiration_dates[1].calls \in {CallsNear, CallsOut}
        /\ r.expiration_dates[2].calls = CallsWide
        /\ r.expiration_dates[2].days # 0 }
    \cup
    \* no expiration_dates: the source lists four expiries
    [op : {"calculate_implied_volatility_surface"},
     current_price : {0, 100}, expiration_dates : {<<>>},
     listed : {<< [exp_date |-> "2026-11-06", days |-> -5,
                   calls |-> CallsNear, puts |-> PutsNear],
                  [exp_date |-> "2026-12-01", days |-> 30,
                   calls |-> CallsNear, puts |-> <<>>],
                  [exp_date |-> "2026-12-18", days |-> 30,
                   calls |-> CallsOut, puts |-> <<>>],
                  [exp_date |-> "2027-01-15", days |-> 30,
                   calls |-> CallsWide, puts |-> <<>>] >>},
     fails_at : {0}]

\* market is what the data source holds for the ticker
PriceRangeRequests ==
    { r \in [op : {"forecast_price_range"},
             market :
                 [current_price : {0, 100},
                  options : {<<>>,
                             <<[exp_date |-> "2026-12-01", days |-> 30,
                                calls |-> CallsNear, puts |-> PutsNear]>>,
                             <<[exp_date |-> "2026-12-01", days |-> 30,
                                calls |-> CallsOut, puts |-> <<>>]>>,
                             <<[exp_date |-> "2026-10-27", days |-> -5,
                                calls |-> CallsNear, puts |-> <<>>]>>},
                  closes : {<<>>, <<100>>, <<100, 105, 98, 110>>,
                            <<100, 100, 100>>},
                  fails : {"none", "info", "chain", "history"}],
             forecast_days : {0, 30, 90},
             confidence_level : {5000, 9500, 9900}] :
        /\ (r.market.fails # "none") =>
               (r.forecast_days = 30 /\ r.confidence_level = 9500)
        \* a forecast for today, a confidence of a half and closes that
        \* never move: asked of a stock at 100 with a chain or without
        /\ (r.forecast_days = 0 \/ r.confidence_level = 5000
               \/ r.market.closes = <<100, 100, 100>>) =>
               /\ r.market.current_price = 100
               /\ r.market.fails = "none"
               /\ (r.market.options = <<>>
                      \/ r.market.options[1].puts = PutsNear) }

DensityRequests ==
    [op : {"price_probability_density"}, current_price : {50, 100},
     volatility : {100, 500, 2000, 10000}, time_horizon : {7, 30, 365},
     n_points : {1, 2, 5}]

\* One asset's daily returns (in 1 / SC), its weight, and small draws
MonteCarloRequests ==
    [op : {"monte_carlo_portfolio_simulation"},
     returns_df : {<<10, -10, 20>>, <<-30, 10>>}, weights : {<<SC>>, <<SC \div 2>>},
     n_simulations : {1, 2, 3}, time_horizon : {1, 2}]
    \cup
    \* more paths, and returns whose compounded value leaves the range
    [op : {"monte_carlo_portfolio_simulation"},
     returns_df : {<<10, -10, 20>>, <<300, 200>>}, weights : {<<SC>>},
     n_simulations : {21}, time_horizon : {1, 2}]

DashboardRequests ==
    [op : {"create_risk_dashboard_data"}, n_holdings : {1, 2, 3}]

\* get_multiple_stocks on a service constructed with enable_caching
MultipleStocksRequests ==
    [op : {"get_multiple_stocks"},
     symbols : {<<>>, <<"AAPL">>, <<"AAPL", "MSFT">>,
                <<"AAPL", "MSFT", "AAPL">>, <<"^GSPC">>},
     max_workers : {0, 1, 2}, enable_caching : BOOLEAN]

\* get_market_indices on a service with or without caching
IndicesRequests ==
    [op : {"get_market_indices"}, enable_caching : BOOLEAN]

\* The history of a PerformanceTracker: a pattern of daily returns
\* repeated up to a number of days on either side of the 30 that
\* calculate_sharpe_ratio asks for
TrackerRequests ==
    { [op |-> "calculate_comprehensive_metrics",
       daily_returns |-> [i \in 1..n |-> p[((i - 1) % Len(p)) + 1]]] :
          p \in {<<100, -50, 20>>, <<0>>}, n \in {0, 1, 5, 29, 30, 31} }

\* A frame of two assets' daily returns, weights=None
PortfolioMetricsRequests ==
    { [op |-> "calculate_portfolio_metrics",
       returns |-> [i \in 1..n |-> p[((i - 1) % Len(p)) + 1]]] :
          p \in {<<<<100, -20>>, <<-60, 40>>, <<20, 20>>>>, <<<<0, 0>>>>},
          n \in {1, 2, 5, 29, 30} }

\* The application of src/main.py serving its clients: those who
\* register and log in, or the built-in users managing portfolios
ServeRequests ==
    [op : {"serve"}, area : {"accounts", "portfolios", "prices"}]

\* The seconds that pass between two calls, and the length of a run
Delays == {100, 300}
MaxElapsed == 800

\* self.cache_duration = 300
cache_duration == 300

\* MarketDataService(): cache = {}, last_update = {}; stored notes, for
\* each key, the second of the run at which its value was stored
NoQuotes ==
    [cache |-> [k \in {} |-> 0], last_update |-> [k \in {} |-> 0],
     stored |-> [k \in {} |-> 0]]

\* DEMO_USERS as simple_auth is loaded
DemoUsers ==
    ("demo@auravest.com" :> [password_hash |-> "demo123", id |-> 1])
        @@ ("admin@auravest.com" :> [password_hash |-> "admin123", id |-> 2])

\* An empty dictionary of portfolios or of holdings
NoRecords == [id \in {} |-> [id |-> 0]]

\* What the clients send: the e-mails and passwords of the accounts, the
\* name of each portfolio created and the ticker of each holding added
\* (a new one each time, so that the records can be told apart), and the
\* ids they address
Emails == {"demo@auravest.com", "new@example.com", "late@example.com"}
Passwords == {"demo123", "first", "second"}
PortfolioNames == <<"Growth", "Income", "Hedge">>
Tickers == <<"AAPL", "MSFT", "TSLA">>
Ids == 1..3

\* No task submitted, nothing collected, nothing cached
IdlePool ==
    [futures |-> <<>>, results |-> EmptyDict, collected |-> <<>>,
     price_cache |-> EmptyDict]

Requests ==
    PricingRequests \cup DegenerateRequests \cup RoundTripRequests
        \cup QuoteRequests \cup CovarianceRequests \cup StressRequests
        \cup OptimizeRequests \cup ForecastRequests \cup SurfaceRequests
        \cup PriceRangeRequests \cup DensityRequests
        \cup MonteCarloRequests \cup DashboardRequests
        \cup MultipleStocksRequests
        \cup TrackerRequests \cup PortfolioMetricsRequests
        \cup IndicesRequests \cup ServeRequests

\* The calls a caller makes one after the other on the same model object
RepeatRequests ==
    { r \in OptimizeRequests : r.n_assets = 2 }
        \cup { r \in ForecastRequests :
                   r.method = "garch" /\ r.forecast_days = 1
                       /\ r.prices = <<100, 105, 98, 110>> }
        \cup { r \in QuoteRequests :
                   r.option_type = "call" /\ r.tolerance = ToleranceDefault
                       /\ r.max_iter \in {0, MaxIterDefault} }
        \cup { r \in MonteCarloRequests : r.time_horizon = 1 }
        \cup DashboardRequests
        \cup { r \in MultipleStocksRequests :
                   r.enable_caching /\ r.max_workers = 2
                       /\ Len(r.symbols) \in {1, 2} }
        \cup { r \in IndicesRequests : r.enable_caching }
        \cup TrackerRequests

Init ==
    /\ req \in Requests
    /\ pc = "call"
    /\ ret = NoResult
    /\ path = "none"
    /\ sigma = 0
    /\ iter = 0
    /\ prev = NoCall
    \* the process starts with a generator seeded from the system's entropy
    /\ rng \in IF req \in MonteCarloRequests \cup DashboardRequests
               THEN {Seeded(7), Seeded(1001)} ELSE {Seeded(7)}
    /\ pool = IdlePool
    /\ cached_metrics = NoMetrics
    \* load_historical_data: the returns of the data file
    /\ daily_returns = IF req \in TrackerRequests THEN req.daily_returns
                       ELSE <<>>
    /\ DEMO_USERS = DemoUsers
    \* init_demo_data: {}, {}, {}
    /\ USER_PORTFOLIOS = NoRecords
    /\ USER_HOLDINGS = NoRecords
    /\ ledger = [created |-> 0, added |-> 0, kept |-> {},
                 accounts |-> DemoUsers]
    \* elapsed: the seconds since the start; wall: what time.time() reads
    /\ clock = [elapsed |-> 0, wall |-> 5000, set_back |-> FALSE]
    /\ market_service = NoQuotes

\* black_scholes called with Python numbers: S/K raises ZeroDivisionError
\* for K = 0, every other input goes through numpy and returns a value
BlackScholes ==
    /\ pc = "call"
    /\ req.op = "black_scholes"
    /\ ret' = IF req.K = 0 THEN Raised("ZeroDivisionError")
              ELSE Returned(black_scholes(req.S, req.K, req.T, req.r,
                                          req.sigma, req.option_type))
    /\ path' = "direct"
    /\ pc' = "done"
    /\ UNCHANGED <<req, sigma, iter, prev, rng, pool, services>>

\* implied_volatility up to the loop: sigma = 0.5
ImpliedVolatilityEnter ==
    /\ pc = "call"
    /\ req.op = "implied_volatility"
    /\ sigma' = InitialGuess
    /\ iter' = 0
    /\ pc' = "iv_loop"
    /\ UNCHANGED <<req, ret, path, prev, rng, pool, services>>

\* diff = option_price - price at the current sigma
PriceDiff ==
    DiffOf(req.option_price,
           black_scholes(req.S, req.K, req.T, req.r, sigma, req.option_type))

\* One pass of "for i in range(max_iter)": return sigma when the price
\* is within tolerance, else take the Newton step
ImpliedVolatilityIterate ==
    /\ pc = "iv_loop"
    /\ iter < req.max_iter
    /\ IF WithinTolerance(PriceDiff, req.tolerance)
       THEN /\ ret' = Returned(sigma)
            /\ path' = "converged"
            /\ pc' = "done"
            /\ UNCHANGED <<sigma, iter>>
       ELSE /\ sigma' = NewtonStep(req.S, req.K, req.T, req.r, PriceDiff, sigma)
            /\ iter' = iter + 1
            /\ UNCHANGED <<ret, path, pc>>
    /\ UNCHANGED <<req, prev, rng, pool, services>>

\* The loop ran out: return sigma
ImpliedVolatilityExhaust ==
    /\ pc = "iv_loop"
    /\ iter >= req.max_iter
    /\ ret' = Returned(sigma)
    /\ path' = "fallback"
    /\ pc' = "done"
    /\ UNCHANGED <<req, sigma, iter, prev, rng, pool, services>>

CalculatePortfolioCovariance ==
    /\ pc = "call"
    /\ req.op = "calculate_portfolio_covariance"
    /\ ret' = Returned(calculate_portfolio_covariance(req.returns_df, req.weights))
    /\ path' = "direct"
    /\ pc' = "done"
    /\ UNCHANGED <<req, sigma, iter, prev, rng, pool, services>>

StressTestPortfolio ==
    /\ pc = "call"
    /\ req.op = "stress_test_portfolio"
    /\ ret' = stress_test_portfolio(req.portfolio_data, req.scenarios)
    /\ path' = "direct"
    /\ pc' = "done"
    /\ UNCHANGED <<req, sigma, iter, prev, rng, pool, services>>

OptimizePortfolio ==
    /\ pc = "call"
    /\ req.op = "optimize_portfolio"
    /\ ret' = Returned(optimize_portfolio(req.n_assets, req.method, req.result))
    /\ path' = IF req.result.success THEN "converged" ELSE "fallback"
    /\ pc' = "done"
    /\ UNCHANGED <<req, sigma, iter, prev, rng, pool, services>>

ForecastVolatility ==
    /\ pc = "call"
    /\ req.op = "forecast_volatility"
    /\ ret' = forecast_volatility(req.prices, req.method, req.forecast_days,
                                  req.estimator)
    /\ path' = IF req.method # "garch" THEN "direct"
               ELSE IF req.estimator.outcome = "ok" THEN "converged"
               ELSE "fallback"
    /\ pc' = "done"
    /\ UNCHANGED <<req, sigma, iter, prev, rng, pool, services>>

CalculateImpliedVolatilitySurface ==
    /\ pc = "call"
    /\ req.op = "calculate_implied_volatility_surface"
    /\ ret' = Returned(calculate_implied_volatility_surface(
                  req.current_price, req.expiration_dates, req.listed,
                  req.fails_at))
    /\ path' = IF req.fails_at = 0 THEN "direct" ELSE "fallback"
    /\ pc' = "done"
    /\ UNCHANGED <<req, sigma, iter, prev, rng, pool, services>>

\* np.random.seed(42) and the draw of time_horizon * n_simulations
\* deviates leave the global generator in the state a later call finds
MonteCarloPortfolioSimulation ==
    /\ pc = "call"
    /\ req.op = "monte_carlo_portfolio_simulation"
    /\ ret' = Returned(monte_carlo_portfolio_simulation(req.returns_df,
                  req.weights, req.n_simulations, req.time_horizon))
    /\ rng' = [seed |-> 42, pos |-> req.time_horizon * req.n_simulations]
    /\ path' = "direct"
    /\ pc' = "done"
    /\ UNCHANGED <<req, sigma, iter, prev, pool, services>>

\* RiskVisualizer.create_risk_dashboard_data: with more than one holding it
\* draws 252 returns per holding from the global generator,
\* np.random.normal(0.08, 0.25, 252), and runs the simulation with its
\* defaults (10000 paths of 252 steps) on them.  Of the result the model
\* keeps the first two returns drawn for each holding.
CreateRiskDashboardData ==
    /\ pc = "call"
    /\ req.op = "create_risk_dashboard_data"
    /\ IF req.n_holdings > 1
       THEN /\ ret' = Returned([h \in 1..req.n_holdings |->
                           [k \in 1..2 |->
                               800 + Mul(2500, Deviate(rng, ((h - 1) * 252) + k))]])
            /\ rng' = [seed |-> 42, pos |-> 252 * 10000 * req.n_holdings]
       ELSE /\ ret' = Returned(<<>>)
            /\ rng' = rng
    /\ path' = "direct"
    /\ pc' = "done"
    /\ UNCHANGED <<req, sigma, iter, prev, pool, services>>

PriceProbabilityDensity ==
    /\ pc = "call"
    /\ req.op = "price_probability_density"
    /\ ret' = Returned(price_probability_density(req.current_price,
                  req.volatility, req.time_horizon, req.n_points))
    /\ path' = "direct"
    /\ pc' = "done"
    /\ UNCHANGED <<req, sigma, iter, prev, rng, pool, services>>

\* path records where the volatility of the result came from
ForecastPriceRange ==
    /\ pc = "call"
    /\ req.op = "forecast_price_range"
    /\ ret' = forecast_price_range(req.market, req.forecast_days,
                                   req.confidence_level)
    /\ path' = IF req.market.fails = "info" \/ req.market.current_price = 0
               THEN "none"
               ELSE IF req.market.options = <<>> THEN "fallback"
               ELSE IF req.market.fails = "chain" THEN "none"
               ELSE IF NearestIvValues(req.market) = <<>> THEN "fallback"
               ELSE "direct"
    /\ pc' = "done"
    /\ UNCHANGED <<req, sigma, iter, prev, rng, pool, services>>

\* The tasks of the pool in a given status
TasksIn(status) ==
    { i \in 1..Len(pool.futures) : pool.futures[i].status = status }

\* get_multiple_stocks up to the loop over as_completed: nothing to do
\* for no symbols, ThreadPoolExecutor raises ValueError for max_workers <= 0,
\* otherwise one task per entry of symbols is submitted
GetMultipleStocks ==
    /\ pc = "call"
    /\ req.op = "get_multiple_stocks"
    /\ IF req.symbols = <<>>
       THEN /\ ret' = Returned(EmptyDict)
            /\ pc' = "done"
            /\ pool' = pool
       ELSE IF req.max_workers <= 0
       THEN /\ ret' = Raised("ValueError")
            /\ pc' = "done"
            /\ pool' = pool
       ELSE /\ pool' = [pool EXCEPT !.futures = future_to_symbol(req.symbols),
                                    !.results = EmptyDict,
                                    !.collected = <<>>]
            /\ pc' = "gather"
            /\ ret' = ret
    /\ path' = "direct"
    /\ UNCHANGED <<req, sigma, iter, prev, rng, services>>

\* ------------------------------------------------------------------
\* src/main.py and src/simple_auth.py: accounts, portfolios, holdings.
\* The handlers are coroutines without an await: each runs to its end
\* before the next request is taken.
\* ------------------------------------------------------------------
\* An add_demo_user that stores the new password over the old one
add_demo_user_off(users, email, password) ==
    (email :> [password_hash |-> password,
               id |-> IF email \in DOMAIN users THEN users[email].id
                      ELSE Cardinality(DOMAIN users) + 1]) @@ users

\* add_demo_user: DEMO_USERS afterwards; the same when the e-mail is taken
\* (the function returns False)
add_demo_user(users, email, password) ==
    IF email \in DOMAIN users THEN users
    ELSE (email :> [password_hash |-> password,
                    id |-> Cardinality(DOMAIN users) + 1]) @@ users

\* authenticate_user returns the user and not None
authenticate_user(users, email, password) ==
    email \in DOMAIN users /\ password = users[email].password_hash

\* The body of an HTTPException, or a message
Detail(message) == [detail |-> message]

\* The response to a call, with the call it answers
Response(call, status, body) ==
    [kind |-> "response", call |-> call, status |-> status, body |-> body]

\* The application is up, between two requests of the area
Serving(area) ==
    req.op = "serve" /\ req.area = area /\ pc \in {"call", "done"}

\* get_current_user: the ids of the accounts a token can be issued for
CurrentUsers == { DEMO_USERS[e].id : e \in DOMAIN DEMO_USERS }

\* "Verify portfolio ownership": the portfolio exists and is the caller's
Owned(portfolio_id, current_user) ==
    portfolio_id \in DOMAIN USER_PORTFOLIOS
        /\ USER_PORTFOLIOS[portfolio_id].user_id = current_user

\* The holdings whose portfolio_id is portfolio_id
HoldingsOf(portfolio_id) ==
    { h \in DOMAIN USER_HOLDINGS :
          USER_HOLDINGS[h].portfolio_id = portfolio_id }

\* del d[k] for every k of keys
Without(d, keys) == [k \in DOMAIN d \ keys |-> d[k]]

\* POST /auth/register
Register ==
    /\ Serving("accounts")
    /\ \E email \in Emails, password \in Passwords :
           LET call == [op |-> "register", email |-> email,
                        password |-> password]
               taken == email \in DOMAIN DEMO_USERS
           IN  /\ DEMO_USERS' = add_demo_user(DEMO_USERS, email, password)
               /\ ret' = IF DEMO_USERS' = DEMO_USERS
                          THEN Response(call, 400, Detail("Email already registered"))
                          ELSE Response(call, 200, [token_type |-> "bearer"])
               /\ ledger' = IF taken THEN ledger
                             ELSE [ledger EXCEPT !.accounts =
                                      (email :> DEMO_USERS'[email]) @@ @]
    /\ pc' = "done"
    /\ UNCHANGED <<req, path, sigma, iter, prev, rng, pool, quotes,
                   cached_metrics, daily_returns, USER_PORTFOLIOS, USER_HOLDINGS>>

\* POST /auth/login
Login ==
    /\ Serving("accounts")
    /\ \E email \in Emails, password \in Passwords :
           LET call == [op |-> "login", email |-> email,
                        password |-> password]
           IN  ret' = IF authenticate_user(DEMO_USERS, email, password)
                      THEN Response(call, 200, [token_type |-> "bearer"])
                      ELSE Response(call, 401, Detail("Incorrect email or password"))
    /\ pc' = "done"
    /\ UNCHANGED <<req, path, sigma, iter, prev, rng, pool, services>>

\* POST /portfolio/create
CreatePortfolio ==
    /\ Serving("portfolios")
    /\ ledger.created < Len(PortfolioNames)
    /\ \E current_user \in CurrentUsers :
           LET portfolio_id == Cardinality(DOMAIN USER_PORTFOLIOS) + 1
               portfolio == [id |-> portfolio_id, user_id |-> current_user,
                             name |-> PortfolioNames[ledger.created + 1]]
               call == [op |-> "create_portfolio"]
           IN  /\ USER_PORTFOLIOS' =
                      (portfolio_id :> portfolio) @@ USER_PORTFOLIOS
               /\ ret' = Response(call, 200, portfolio)
    /\ ledger' = [ledger EXCEPT !.created = @ + 1]
    /\ pc' = "done"
    /\ UNCHANGED <<req, path, sigma, iter, prev, rng, pool, quotes,
                   cached_metrics, daily_returns, DEMO_USERS, USER_HOLDINGS>>

\* POST /portfolio/{portfolio_id}/holdings
AddHolding ==
    /\ Serving("portfolios")
    /\ ledger.added < Len(Tickers)
    /\ \E current_user \in CurrentUsers, portfolio_id \in Ids :
           LET call == [op |-> "add_holding"]
               holding_id == Cardinality(DOMAIN USER_HOLDINGS) + 1
               new_holding ==
                   [id |-> holding_id, portfolio_id |-> portfolio_id,
                    ticker_symbol |-> Tickers[ledger.added + 1]]
           IN  IF ~Owned(portfolio_id, current_user)
               THEN /\ ret' = Response(call, 404, Detail("Portfolio not found"))
                    /\ UNCHANGED <<USER_HOLDINGS, ledger>>
               ELSE /\ USER_HOLDINGS' =
                           (holding_id :> new_holding) @@ USER_HOLDINGS
                    /\ ret' = Response(call, 200, new_holding)
                    /\ ledger' = [ledger EXCEPT
                           !.added = @ + 1,
                           !.kept = @ \cup
                               {[portfolio |->
                                     USER_PORTFOLIOS[portfolio_id].name,
                                 ticker |-> new_holding.ticker_symbol]}]
    /\ pc' = "done"
    /\ UNCHANGED <<req, path, sigma, iter, prev, rng, pool, quotes,
                   cached_metrics, daily_returns, DEMO_USERS, USER_PORTFOLIOS>>

\* GET /portfolio/{portfolio_id}: the portfolio with the tickers of the
\* holdings listed
GetPortfolio ==
    /\ Serving("portfolios")
    /\ \E current_user \in CurrentUsers, portfolio_id \in Ids :
           LET call == [op |-> "get_portfolio"]
           IN  ret' =
                   IF ~Owned(portfolio_id, current_user)
                   THEN Response(call, 404, Detail("Portfolio not found"))
                   ELSE Response(call, 200,
                            [name |-> USER_PORTFOLIOS[portfolio_id].name,
                             holdings |->
                                 { USER_HOLDINGS[h].ticker_symbol :
                                       h \in HoldingsOf(portfolio_id) }])
    /\ pc' = "done"
    /\ UNCHANGED <<req, path, sigma, iter, prev, rng, pool, services>>

\* DELETE /portfolio/{portfolio_id}
DeletePortfolio ==
    /\ Serving("portfolios")
    /\ \E current_user \in CurrentUsers, portfolio_id \in Ids :
           LET call == [op |-> "delete_portfolio"]
           IN  IF ~Owned(portfolio_id, current_user)
               THEN /\ ret' = Response(call, 404, Detail("Portfolio not found"))
                    /\ UNCHANGED <<USER_PORTFOLIOS, USER_HOLDINGS, ledger>>
               ELSE /\ USER_HOLDINGS' =
                           Without(USER_HOLDINGS, HoldingsOf(portfolio_id))
                    /\ USER_PORTFOLIOS' =
                           Without(USER_PORTFOLIOS, {portfolio_id})
                    /\ ret' = Response(call, 200, Detail("deleted"))
                    /\ ledger' = [ledger EXCEPT !.kept =
                           { k \in @ : k.portfolio #
                                 USER_PORTFOLIOS[portfolio_id].name }]
    /\ pc' = "done"
    /\ UNCHANGED <<req, path, sigma, iter, prev, rng, pool, quotes,
                   cached_metrics, daily_returns, DEMO_USERS>>

\* DELETE /portfolio/{portfolio_id}/holdings/{holding_id}
DeleteHolding ==
    /\ Serving("portfolios")
    /\ \E current_user \in CurrentUsers, portfolio_id \in Ids,
          holding_id \in Ids :
           LET call == [op |-> "delete_holding"]
           IN  IF ~Owned(portfolio_id, current_user)
               THEN /\ ret' = Response(call, 404, Detail("Portfolio not found"))
                    /\ UNCHANGED <<USER_HOLDINGS, ledger>>
               ELSE IF holding_id \notin HoldingsOf(portfolio_id)
               THEN /\ ret' = Response(call, 404, Detail("Holding not found"))
                    /\ UNCHANGED <<USER_HOLDINGS, ledger>>
               ELSE /\ USER_HOLDINGS' = Without(USER_HOLDINGS, {holding_id})
                    /\ ret' = Response(call, 200, Detail("deleted"))
                    /\ ledger' = [ledger EXCEPT !.kept =
                           { k \in @ : k.ticker #
                                 USER_HOLDINGS[holding_id].ticker_symbol }]
    /\ pc' = "done"
    /\ UNCHANGED <<req, path, sigma, iter, prev, rng, pool, quotes,
                   cached_metrics, daily_returns, DEMO_USERS, USER_PORTFOLIOS>>

\* ------------------------------------------------------------------
\* src/market_data.py: get_stock_price and its cache
\* ------------------------------------------------------------------
\* get_stock_price(ticker) when time.time() reads now and the fetch, if
\* there is one, ends as outcome says with price: the value returned and
\* the service afterwards
get_stock_price(service, ticker, now, elapsed, outcome, price) ==
    LET cache_key == "price_" \o ticker
        last == IF cache_key \in DOMAIN service.last_update
                THEN service.last_update[cache_key] ELSE 0
    IN  IF cache_key \in DOMAIN service.cache
              /\ now - last < cache_duration
        THEN [value |-> service.cache[cache_key], cached |-> TRUE,
              service |-> service]
        ELSE IF outcome = "ok"
        THEN [value |-> price, cached |-> FALSE,
              service |->
                  [cache |-> (cache_key :> price) @@ service.cache,
                   last_update |->
                       (cache_key :> now) @@ service.last_update,
                   stored |-> (cache_key :> elapsed) @@ service.stored]]
        ELSE [value |-> 0, cached |-> FALSE, service |-> service]

\* A call of get_stock_price; the response notes whether the value came
\* from the cache and how many seconds before the call it was stored
GetStockPrice ==
    /\ Serving("prices")
    /\ \E outcome \in {"ok", "empty", "raises"}, price \in {101, 102} :
           LET out == get_stock_price(market_service, "AAPL", clock.wall,
                                      clock.elapsed, outcome, price)
           IN  /\ market_service' = out.service
               /\ ret' = Response([op |-> "get_stock_price"], 200,
                              [price |-> out.value, cached |-> out.cached,
                               age |-> IF out.cached
                                       THEN clock.elapsed
                                            - market_service.stored["price_AAPL"]
                                       ELSE 0])
    /\ pc' = "done"
    /\ UNCHANGED <<req, path, sigma, iter, prev, rng, pool, cached_metrics,
                   daily_returns, stores, clock>>

\* Time passes between two calls
Tick ==
    /\ Serving("prices")
    /\ \E dt \in Delays :
           /\ clock.elapsed + dt <= MaxElapsed
           /\ clock' = [clock EXCEPT !.elapsed = @ + dt, !.wall = @ + dt]
    /\ UNCHANGED <<pc, req, ret, path, sigma, iter, prev, rng, pool,
                   cached_metrics, daily_returns, stores, market_service>>

\* The system clock is set back an hour (by its administrator or by a
\* step of the time synchronisation): time.time() reads an earlier time
\* than it did before
ClockSetBack ==
    /\ Serving("prices")
    /\ ~clock.set_back
    /\ clock' = [clock EXCEPT !.wall = @ - 3600, !.set_back = TRUE]
    /\ UNCHANGED <<pc, req, ret, path, sigma, iter, prev, rng, pool,
                   cached_metrics, daily_returns, stores, market_service>>

\* get_market_indices, the whole loop over the four indices
GetMarketIndices ==
    /\ pc = "call"
    /\ req.op = "get_market_indices"
    /\ \E outcomes \in [DOMAIN indices -> {"ok", "empty", "raises"}],
          fresh \in BOOLEAN :
           LET out == get_market_indices(req.enable_caching,
                                         pool.price_cache, outcomes, fresh)
           IN  /\ ret' = Returned(out.results)
               /\ pool' = [pool EXCEPT !.price_cache = out.price_cache]
    /\ pc' = "done"
    /\ path' = "direct"
    /\ UNCHANGED <<req, sigma, iter, prev, rng, services>>

\* A free worker thread takes the oldest queued task and runs
\* get_stock_data up to the cache check, self._is_cached(symbol): with a
\* fresh entry the task goes on to read it, otherwise the fetch from
\* yfinance begins
WorkerStart ==
    /\ pc = "gather"
    /\ TasksIn("queued") # {}
    /\ Cardinality(TasksIn("fetching") \cup TasksIn("reading"))
           < req.max_workers
    /\ LET i == CHOOSE j \in TasksIn("queued") :
                    \A k \in TasksIn("queued") : j <= k
           symbol == pool.futures[i].symbol
       IN  \E fresh \in BOOLEAN :
               pool' = [pool EXCEPT !.futures[i] =
                   IF _is_cached(req.enable_caching, pool.price_cache,
                                 symbol, fresh)
                   THEN [symbol |-> symbol, status |-> "reading",
                         data |-> NoDataPoint, hit |-> TRUE]
                   ELSE [symbol |-> symbol, status |-> "fetching",
                         data |-> NoDataPoint, hit |-> FALSE]]
    /\ UNCHANGED <<pc, req, ret, path, sigma, iter, prev, rng, services>>

\* return self.price_cache[symbol], after the check found the entry: a
\* KeyError, when the entry is gone, is caught and None is returned
WorkerReadCache ==
    /\ pc = "gather"
    /\ \E i \in TasksIn("reading") :
           pool' = [pool EXCEPT
               !.futures[i].status = "finished",
               !.futures[i].data =
                   IF pool.futures[i].symbol \in DOMAIN pool.price_cache
                   THEN pool.price_cache[pool.futures[i].symbol]
                   ELSE NoDataPoint]
    /\ UNCHANGED <<pc, req, ret, path, sigma, iter, prev, rng, services>>

\* clear_cache, called by another thread of the application while the
\* tasks run (a call on an empty cache changes nothing)
ClearCache ==
    /\ pc = "gather"
    /\ pool.price_cache # EmptyDict
    /\ pool' = [pool EXCEPT !.price_cache = EmptyDict]
    /\ UNCHANGED <<pc, req, ret, path, sigma, iter, prev, rng, services>>

\* A fetch ends, in any order among the running ones: get_stock_data
\* returns the data point, and caches it when caching is on
\* (self.price_cache[symbol] = data_point), or returns None
WorkerFinish ==
    /\ pc = "gather"
    /\ \E i \in TasksIn("fetching"), outcome \in {"ok", "empty", "raises"},
          price \in {101, 102} :
           LET data_point ==
                   get_stock_data(pool.futures[i].symbol, outcome, price)
           IN  pool' = [pool EXCEPT
                   !.futures[i].status = "finished",
                   !.futures[i].data = data_point,
                   !.price_cache =
                       IF data_point # NoDataPoint /\ req.enable_caching
                       THEN (data_point.symbol :> data_point) @@ @
                       ELSE @]
    /\ UNCHANGED <<pc, req, ret, path, sigma, iter, prev, rng, services>>

\* One pass of "for future in as_completed(future_to_symbol)": any
\* finished task not yet seen, merged into results
CollectResult ==
    /\ pc = "gather"
    /\ \E i \in TasksIn("finished") :
           pool' = [pool EXCEPT
               !.futures[i].status = "collected",
               !.results = MergeResult(@, pool.futures[i].symbol,
                                       pool.futures[i].data),
               !.collected = Append(@, i)]
    /\ UNCHANGED <<pc, req, ret, path, sigma, iter, prev, rng, services>>

\* Every task was seen: return results
GetMultipleStocksReturn ==
    /\ pc = "gather"
    /\ TasksIn("collected") = 1..Len(pool.futures)
    /\ ret' = Returned(pool.results)
    /\ pc' = "done"
    /\ UNCHANGED <<req, path, sigma, iter, prev, rng, pool, services>>

\* calculate_comprehensive_metrics: the cached metrics while they are
\* younger than five minutes (fresh is the reading of the clock), the
\* empty metrics for an empty history, else the metrics computed and cached
CalculateComprehensiveMetrics ==
    /\ pc = "call"
    /\ req.op = "calculate_comprehensive_metrics"
    /\ \E fresh \in BOOLEAN :
           IF cached_metrics # NoMetrics /\ fresh
           THEN /\ ret' = Returned(cached_metrics)
                /\ cached_metrics' = cached_metrics
           ELSE /\ ret' = Returned(ComprehensiveMetrics(daily_returns))
                /\ cached_metrics' =
                       IF daily_returns = <<>> THEN cached_metrics
                       ELSE ComprehensiveMetrics(daily_returns)
    /\ path' = "direct"
    /\ pc' = "done"
    /\ UNCHANGED <<req, sigma, iter, prev, rng, pool, daily_returns, stores,
                   quotes>>

\* log_daily_return, called between two calls for the metrics: the
\* return is appended, then the CSV row is written, then the cache is
\* cleared; a write that raises is logged and leaves the cache as it was
LogDailyReturn ==
    /\ pc = "call"
    /\ req.op = "calculate_comprehensive_metrics"
    /\ Len(daily_returns) < Len(req.daily_returns) + MaxLogged
    /\ \E daily_return \in {-50, 100}, write_fails \in BOOLEAN :
           /\ daily_returns' = Append(daily_returns, daily_return)
           /\ cached_metrics' = IF write_fails THEN cached_metrics
                                 ELSE NoMetrics
    /\ UNCHANGED <<pc, req, ret, path, sigma, iter, prev, rng, pool, stores,
                   quotes>>

CalculatePortfolioMetrics ==
    /\ pc = "call"
    /\ req.op = "calculate_portfolio_metrics"
    /\ ret' = Returned(calculate_portfolio_metrics(req.returns))
    /\ path' = "direct"
    /\ pc' = "done"
    /\ UNCHANGED <<req, sigma, iter, prev, rng, pool, services>>

\* The caller, holding the result of one call, makes another call of the
\* same operation on the same model object
NextCall ==
    /\ pc = "done"
    /\ prev = NoCall
    /\ req \in RepeatRequests
    /\ \E r \in RepeatRequests :
           \* the same operation again, or the service asked for stocks
           \* after it was asked for the indices
           /\ \/ r.op = req.op
              \/ req.op = "get_market_indices"
                     /\ r.op = "get_multiple_stocks"
           /\ req' = r
           \* the tracker is the same object, with the file it was given
           /\ (req.op = "calculate_comprehensive_metrics") => (r = req)
    /\ prev' = [op |-> req.op, ret |-> ret, path |-> path]
    /\ pc' = "call"
    /\ ret' = NoResult
    /\ path' = "none"
    /\ sigma' = 0
    /\ iter' = 0
    /\ pool' = [IdlePool EXCEPT !.price_cache = pool.price_cache]
    /\ UNCHANGED <<rng, services>>

Next ==
    \/ BlackScholes
    \/ OptimizePortfolio
    \/ ForecastVolatility
    \/ CalculateImpliedVolatilitySurface
    \/ ForecastPriceRange
    \/ PriceProbabilityDensity
    \/ MonteCarloPortfolioSimulation
    \/ CreateRiskDashboardData
    \/ GetMultipleStocks
    \/ GetMarketIndices
    \/ Register
    \/ Login
    \/ CreatePortfolio
    \/ AddHolding
    \/ GetPortfolio
    \/ DeletePortfolio
    \/ DeleteHolding
    \/ GetStockPrice
    \/ Tick
    \/ ClockSetBack
    \/ WorkerStart
    \/ WorkerReadCache
    \/ ClearCache
    \/ WorkerFinish
    \/ CollectResult
    \/ GetMultipleStocksReturn
    \/ CalculateComprehensiveMetrics
    \/ LogDailyReturn
    \/ CalculatePortfolioMetrics
    \/ NextCall
    \/ CalculatePortfolioCovariance
    \/ StressTestPortfolio
    \/ ImpliedVolatilityEnter
    \/ ImpliedVolatilityIterate
    \/ ImpliedVolatilityExhaust

Spec == Init /\ [][Next]_vars

\* A call of implied_volatility that has started keeps running: the
\* interpreter does not stop between two statements of a function
ImpliedVolatility ==
    ImpliedVolatilityEnter \/ ImpliedVolatilityIterate \/ ImpliedVolatilityExhaust

FairSpec == Spec /\ WF_vars(ImpliedVolatility)

\* ------------------------------------------------------------------
\* Option pricing and implied volatility: properties
\* ------------------------------------------------------------------
PricingDone == (pc = "done") /\ (req.op = "black_scholes")

ImpliedVolDone == (pc = "done") /\ (req.op = "implied_volatility")

\* C6: black_scholes fails with an InvalidInput error whenever the spot,
\* the strike, the time to expiry or the volatility is not positive, and
\* returns a price only when all four are positive.
BlackScholesRejectsNonPositive ==
    (PricingDone /\ (req.S <= 0 \/ req.K <= 0 \/ req.T <= 0 \/ req.sigma <= 0))
        => ((ret.kind = "raised") /\ (ret.error = "InvalidInput"))

\* C7: every call of implied_volatility returns, after at most max_iter
\* pricing iterations; it goes on to the next iteration only when
\* the price at the current sigma misses the tolerance, and every Newton
\* step leaves a sigma that is positive (0.01 when the step went
\* non-positive) or nan; what it returns is the current sigma, either at
\* an iteration whose price is within the tolerance or, after max_iter
\* iterations without one, the sigma the last step produced.
ImpliedVolatilityReturn ==
    /\ (pc = "iv_loop") =>
           /\ iter >= 0
           /\ (iter <= req.max_iter) \/ (iter = 0)
    /\ ImpliedVolDone =>
           /\ ret = Returned(sigma)
           /\ (path = "converged") =>
                  (iter < req.max_iter) /\ WithinTolerance(PriceDiff, req.tolerance)
           /\ (path = "fallback") => (iter = req.max_iter)
           /\ path \in {"converged", "fallback"}

ImpliedVolatilityPass ==
    /\ (pc = "iv_loop" /\ pc' = "iv_loop") =>
           /\ iter' = iter + 1
           /\ iter' <= req.max_iter
           /\ ~WithinTolerance(PriceDiff, req.tolerance)
           /\ (sigma' = NaN) \/ (sigma' > 0)
    /\ (pc = "iv_loop" /\ pc' = "done") =>
           /\ ret' = Returned(sigma)
           /\ WithinTolerance(PriceDiff, req.tolerance) \/ (iter = req.max_iter)

ImpliedVolatilityTerminates ==
    /\ [](ImpliedVolatilityReturn)
    /\ [][ImpliedVolatilityPass]_vars
    /\ ((pc = "call" /\ req.op = "implied_volatility") ~> ImpliedVolDone)

\* a call that used up its 100 iterations and returned the clamped 0.01
ImpliedVolatilityExhausted ==
    /\ ImpliedVolDone
    /\ path = "fallback"
    /\ iter = MaxIterDefault
    /\ ret = Returned(SigmaFloor)

\* C8: implied_volatility applied to the price black_scholes gives for a
\* sigma in [0.05, 1.5] returns that sigma within 1e-4.
ImpliedVolatilityRoundTrip ==
    ImpliedVolDone =>
        \A s0 \in RoundTripSigmas :
            (req.option_price = black_scholes(req.S, req.K, req.T, req.r, s0,
                                              req.option_type))
                => ((ret.value # NaN) /\ (Abs(ret.value - s0) <= 1))

\* The spellings that are 'call' whatever the case
CallSpellings == {"call", "CALL", "Call"}

\* The parity holds to the resolution of the prices
ParityTol == 1

\* C9: for positive inputs the call price minus the put price is
\* S - K*exp(-r*T), and black_scholes returns the call price for an
\* option type that is 'call' in any case and the put price for every
\* other option type.
PutCallParity ==
    (PricingDone /\ req.S > 0 /\ req.K > 0 /\ req.T > 0 /\ req.sigma > 0) =>
        LET c == black_scholes(req.S, req.K, req.T, req.r, req.sigma, "call")
            p == black_scholes(req.S, req.K, req.T, req.r, req.sigma, "put")
            rhs == (req.S * SC) - DiscountedStrike(req.K, req.T, req.r)
        IN /\ Abs((c - p) - rhs) <= ParityTol
           /\ ret = Returned(IF req.option_type \in CallSpellings THEN c ELSE p)

\* a type that is neither spelling priced as a put that is worth something
PricedAsPut ==
    /\ PricingDone
    /\ req.option_type = "straddle"
    /\ req.K = 125
    /\ ret.kind = "returned"
    /\ ret.value > 250000

\* ------------------------------------------------------------------
\* Portfolio risk: properties
\* ------------------------------------------------------------------
CovarianceDone == (pc = "done") /\ (req.op = "calculate_portfolio_covariance")

\* the contributions are numbers and sum to 1 within 1e-6
SumToOne(contributions) ==
    /\ \A i \in DOMAIN contributions : contributions[i][2] # 0
    /\ LET num == SeqSum([i \in DOMAIN contributions |-> contributions[i][1]])
           den == contributions[1][2]
       IN Abs(num - den) <= Abs(den) \div 1000000

\* C1 as the specification states it: for every returns matrix and every
\* weight vector summing to 1 the risk contributions sum to 1.
RiskContributionsSumToOne ==
    (CovarianceDone /\ SeqSum(req.weights) = WeightUnit)
        => SumToOne(ret.value.risk_contributions)

\* C1: for every returns matrix and every weight vector summing to 1 for
\* which the portfolio variance is not zero (at least two rows of returns,
\* and a weighted return that is not the same on every row), the risk
\* contributions sum to 1.
RiskContributionsOfRiskyPortfolio ==
    (CovarianceDone /\ SeqSum(req.weights) = WeightUnit
        /\ ret.value.portfolio_variance[1] # 0)
        => SumToOne(ret.value.risk_contributions)

\* three assets, one of them sold short, and a portfolio that has risk
ShortPortfolioDecomposed ==
    /\ CovarianceDone
    /\ req.weights = <<-12, 12, 12>>
    /\ ret.value.portfolio_variance[1] > 0
    /\ ret.value.risk_contributions[1][1] < 0

StressDone == (pc = "done") /\ (req.op = "stress_test_portfolio")

FallbackIsIndicated ==
    (pc = "done" /\ prev.op = req.op
        /\ {prev.path, path} = {"converged", "fallback"})
        => (ret # prev.ret)

OptimizeDone == (pc = "done") /\ (req.op = "optimize_portfolio")

\* C4: whatever the method name, when the solver reports failure
\* optimize_portfolio returns the equal weights, each 1 / n_assets and
\* 1 in sum, not the iterate the solver stopped at.
OptimizerFallsBackToEqualWeights ==
    (OptimizeDone /\ ~req.result.success) =>
        /\ ret.kind = "returned"
        /\ DOMAIN ret.value = 1..req.n_assets
        /\ \A i \in 1..req.n_assets : ret.value[i] * req.n_assets = WeightUnit
        /\ SeqSum(ret.value) = WeightUnit

\* an unknown method, three assets, and a solver that failed at a corner
UnknownMethodFellBack ==
    /\ OptimizeDone
    /\ req.method = "kelly"
    /\ req.n_assets = 3
    /\ ~req.result.success
    /\ req.result.x = <<WeightUnit, 0, 0>>
    /\ ret = Returned(<<4, 4, 4>>)

ForecastDone == (pc = "done") /\ (req.op = "forecast_volatility")

\* C5: with method 'garch' and an estimator that is missing or fails to
\* fit, forecast_volatility gives exactly what method 'historical' gives
\* for the same prices and horizon: forecast_days equal values when that
\* returns, and no exception that 'historical' does not raise.
GarchFallsBackToHistorical ==
    (ForecastDone /\ req.method = "garch" /\ req.estimator.outcome # "ok") =>
        /\ ret = forecast_volatility(req.prices, "historical",
                                     req.forecast_days, req.estimator)
        /\ (ret.kind = "returned") =>
               /\ Len(ret.value) = req.forecast_days
               /\ \A i \in DOMAIN ret.value : ret.value[i] = ret.value[1]
        /\ (ret.kind = "raised") => (req.forecast_days < 0)

\* the fit failed on three returns and three days were forecast
GarchFellBack ==
    /\ ForecastDone
    /\ req.method = "garch"
    /\ req.estimator.outcome = "fit_fails"
    /\ req.prices = <<100, 105, 98, 110>>
    /\ ret.kind = "returned"
    /\ Len(ret.value) = 3
    /\ ret.value[3] > SC

SurfaceDone ==
    (pc = "done") /\ (req.op = "calculate_implied_volatility_surface")

\* the expiries the call was given or the source lists
SourceExpiries == req.expiration_dates \o req.listed

\* the quotes of expiry e on the side of the chain a row names
SideOf(e, type) == IF type = "call" THEN e.calls ELSE e.puts

\* C10: every row of the surface calculate_implied_volatility_surface
\* returns comes from a quote with bid > 0 and ask > 0 of an expiry with a
\* time to expiry above 0, and carries the implied volatility computed for
\* that quote's mid price, strictly between 0.1 and 2.0.  A quote without a
\* positive bid and ask has no row, an expiry with a time to expiry of 0 or
\* less has no entry, and no entry is empty.
SurfaceFromUsableQuotes ==
    SurfaceDone =>
        /\ \A d \in DOMAIN ret.value :
               /\ ret.value[d] # <<>>
               /\ \E k \in DOMAIN SourceExpiries :
                      /\ SourceExpiries[k].exp_date = d
                      /\ SourceExpiries[k].days > 0
                      /\ \A j \in DOMAIN ret.value[d] :
                             /\ 1000 < ret.value[d][j].iv
                             /\ ret.value[d][j].iv < 20000
                             /\ \E q \in DOMAIN SideOf(SourceExpiries[k],
                                                       ret.value[d][j].type) :
                                    LET quote == SideOf(SourceExpiries[k],
                                                        ret.value[d][j].type)[q]
                                    IN  /\ quote.strike = ret.value[d][j].strike
                                        /\ quote.bid > 0
                                        /\ quote.ask > 0
                                        /\ ret.value[d][j].iv =
                                               _calculate_iv(req.current_price,
                                                   quote.strike,
                                                   ((SourceExpiries[k].days * SC) + 182) \div 365,
                                                   (quote.bid + quote.ask) \div 2,
                                                   ret.value[d][j].type)
        /\ \A k \in DOMAIN SourceExpiries :
               IF SourceExpiries[k].exp_date \notin DOMAIN ret.value
               THEN TRUE
               ELSE /\ SourceExpiries[k].days > 0
                    /\ \A type \in {"call", "put"} :
                       \A q \in DOMAIN SideOf(SourceExpiries[k], type) :
                           LET quote == SideOf(SourceExpiries[k], type)[q]
                           IN  (quote.bid <= 0 \/ quote.ask <= 0) =>
                                   \A j \in DOMAIN ret.value[SourceExpiries[k].exp_date] :
                                       LET row == ret.value[SourceExpiries[k].exp_date][j]
                                       IN  ~(row.type = type /\ row.strike = quote.strike)

\* of two expiries the expired one has no entry, and the other has a row
\* for one call and one put while four of its quotes were left out
SurfaceKeptUsableQuotes ==
    /\ SurfaceDone
    /\ Len(req.expiration_dates) = 2
    /\ req.expiration_dates[1].days = -5
    /\ req.expiration_dates[1].calls = CallsNear
    /\ req.expiration_dates[2].calls = CallsWide
    /\ req.expiration_dates[2].puts = PutsNear
    /\ DOMAIN ret.value = {"2026-12-18"}
    /\ Len(ret.value["2026-12-18"]) = 2
    /\ ret.value["2026-12-18"][1].type = "call"
    /\ ret.value["2026-12-18"][1].strike = 105
    /\ ret.value["2026-12-18"][2].type = "put"
    /\ ret.value["2026-12-18"][2].strike = 100

PriceRangeDone == (pc = "done") /\ (req.op = "forecast_price_range")

\* C11: whenever forecast_price_range returns a result whose volatility
\* was derived from the historical closes (no expiry is listed, or no quote
\* of the nearest expiry gives a volatility inside the band), the result
\* carries method = 'historical'.
HistoricalVolatilityIsLabelled ==
    (PriceRangeDone /\ ret.kind = "returned" /\ path = "fallback") =>
        /\ "method" \in DOMAIN ret.value
        /\ ret.value.method = "historical"

\* C12: every result of forecast_price_range has expected_price =
\* spot*e^(drift*T), lower_bound = spot*e^((drift - z*sigma)*T) and
\* upper_bound = spot*e^((drift + z*sigma)*T), with drift = r - 0.5*sigma^2
\* (r = 0.05), T = forecast_days/365, and spot and sigma the current price
\* and the volatility the result reports.
PriceRangeFollowsRiskNeutralDrift ==
    (PriceRangeDone /\ ret.kind = "returned"
        /\ ret.value.implied_volatility # NaN) =>
        /\ ret.value.expected_price =
               PriceRange(ret.value.current_price,
                          500 - (Sq(ret.value.implied_volatility) \div 2),
                          ret.value.implied_volatility, req.forecast_days,
                          req.confidence_level).expected_price
        /\ ret.value.lower_bound =
               PriceRange(ret.value.current_price,
                          500 - (Sq(ret.value.implied_volatility) \div 2),
                          ret.value.implied_volatility, req.forecast_days,
                          req.confidence_level).lower_bound
        /\ ret.value.upper_bound =
               PriceRange(ret.value.current_price,
                          500 - (Sq(ret.value.implied_volatility) \div 2),
                          ret.value.implied_volatility, req.forecast_days,
                          req.confidence_level).upper_bound

DensityDone == (pc = "done") /\ (req.op = "price_probability_density")

\* the probability between the first and the last price of the grid
GridMass == ret.value.cdf_values[req.n_points] - ret.value.cdf_values[1]

\* C13 as stated: for every spot > 0, volatility > 0 and horizon > 0 the
\* grid of price_probability_density (of two points or more) holds at least
\* 99% of the probability of the log-normal distribution it evaluates.
DensityGridHoldsTheMass ==
    (DensityDone /\ req.current_price > 0 /\ req.volatility > 0
        /\ req.time_horizon > 0 /\ req.n_points >= 2) => (GridMass >= 9900)

\* C13 amended: the grid holds at least 99% of the probability when it has
\* at least two points and the drift over the horizon, mu - ln(spot), is at
\* most half of sigma_t in absolute value.
DensityGridHoldsTheMassAtSmallDrift ==
    (DensityDone /\ req.current_price > 0 /\ req.volatility > 0
        /\ req.time_horizon > 0 /\ req.n_points >= 2
        /\ 2 * Abs(ret.value.distribution_params.mu - Ln(req.current_price, 1))
               <= ret.value.distribution_params.sigma) =>
        (GridMass >= 9900)

\* a 30-day density at volatility 0.2 on five points
DensityOverAMonth ==
    /\ DensityDone
    /\ req.volatility = 2000
    /\ req.time_horizon = 30
    /\ req.n_points = 5
    /\ GridMass >= 9900
    /\ ret.value.cdf_values[1] > 0

\* the two assets both vary and their return correlation is below 1
CorrelationBelowOne ==
    /\ Len(req.weights) = 2
    /\ CovScaled(req.returns_df, 1, 1) > 0
    /\ CovScaled(req.returns_df, 2, 2) > 0
    /\ \/ CovScaled(req.returns_df, 1, 2) < 0
       \/ CovScaled(req.returns_df, 1, 2) * CovScaled(req.returns_df, 1, 2)
              < CovScaled(req.returns_df, 1, 1) * CovScaled(req.returns_df, 2, 2)

\* 4 * portfolio_variance less the two assets' annualised variances, in
\* the unit in which the variance of asset i is
\* WeightUnit^2 * CovScaled(returns_df, i, i)
VarianceExcess ==
    (4 * (ret.value.portfolio_variance[1] \div 252))
        - (WeightUnit * WeightUnit
              * (CovScaled(req.returns_df, 1, 1) + CovScaled(req.returns_df, 2, 2)))

\* C14: for two assets with a return correlation below 1 held in equal
\* weights, portfolio_volatility (the square root of the portfolio_variance
\* calculate_portfolio_covariance returns) is strictly less than the mean
\* of the two assets' annualised volatilities: sqrt(V) < (s1 + s2) / 2,
\* that is 4V - s1^2 - s2^2 < 2 * s1 * s2.
DiversificationLowersVolatility ==
    (CovarianceDone /\ req.weights = <<6, 6>> /\ CorrelationBelowOne) =>
        /\ ret.value.portfolio_variance[2] > 0
        /\ \/ VarianceExcess < 0
           \/ VarianceExcess * VarianceExcess
                  < 4 * WeightUnit * WeightUnit * WeightUnit * WeightUnit
                      * CovScaled(req.returns_df, 1, 1)
                      * CovScaled(req.returns_df, 2, 2)

\* two assets over three periods whose correlation is strictly between 0
\* and 1
PartlyCorrelatedPair ==
    /\ CovarianceDone
    /\ req.weights = <<6, 6>>
    /\ Len(req.returns_df) = 3
    /\ CorrelationBelowOne
    /\ CovScaled(req.returns_df, 1, 2) > 0
    /\ ret.value.portfolio_variance[1] > 0

MonteCarloDone ==
    (pc = "done") /\ (req.op = "monte_carlo_portfolio_simulation")

\* C15: monte_carlo_portfolio_simulation has no way to ask for a seed, so
\* every call is one that does not ask: its final values are those drawn
\* from the shared generator in the state the call found it in, not from a
\* generator the call seeded itself.
UnseededCallDrawsFromTheSharedGenerator ==
    [][MonteCarloPortfolioSimulation =>
          (ret'.value.simulation_results.final_values
              = FinalValues(rng, req.returns_df, req.weights,
                            req.n_simulations, req.time_horizon))]_vars

\* C16: no call changes the state of the process that outlives it: the
\* shared random generator a later call draws from is after every step
\* what it was before.
CallsLeaveSharedStateAlone == [][rng' = rng]_vars

\* C17: a simulation run with n_simulations = N returns N final values
\* together with percentile_5, percentile_95 and expected_return, and
\* percentile_5 < expected_return < percentile_95.
SimulationReportsOrderedPercentiles ==
    MonteCarloDone =>
        /\ Len(ret.value.simulation_results.final_values) = req.n_simulations
        /\ {"percentile_5", "percentile_95", "expected_return"}
               \subseteq DOMAIN ret.value
        /\ ret.value.percentile_5 < ret.value.expected_return
        /\ ret.value.expected_return < ret.value.percentile_95

\* the names of the scenarios of the request
ScenarioNames == {req.scenarios[k].name : k \in DOMAIN req.scenarios}

\* C18 as stated: for every list of scenarios stress_test_portfolio returns
\* as many entries as there are scenarios, each keyed by its scenario's
\* name.
OneResultPerScenario ==
    StressDone =>
        /\ ret.kind = "returned"
        /\ Cardinality(DOMAIN ret.value) = Len(req.scenarios)
        /\ ScenarioNames \subseteq DOMAIN ret.value

\* C18 amended: when stress_test_portfolio returns, its result has exactly
\* one entry per distinct scenario name, so as many entries as scenarios
\* when no two scenarios share a name; it returns unless there is a
\* scenario and total_value is 0.
OneResultPerScenarioName ==
    StressDone =>
        /\ (ret.kind = "returned") <=>
               (req.scenarios = <<>> \/ req.portfolio_data.total_value # 0)
        /\ (ret.kind = "returned") =>
               /\ DOMAIN ret.value = ScenarioNames
               /\ (Cardinality(ScenarioNames) = Len(req.scenarios)) =>
                      (Cardinality(DOMAIN ret.value) = Len(req.scenarios))

\* a crash and a rally give two entries
TwoScenariosTwoResults ==
    /\ StressDone
    /\ Len(req.scenarios) = 2
    /\ ret.kind = "returned"
    /\ DOMAIN ret.value = {"crash", "rally"}
    /\ ret.value["crash"] # ret.value["rally"]

\* ------------------------------------------------------------------
\* MarketDataService.get_multiple_stocks: properties
\* ------------------------------------------------------------------
MultipleStocksDone ==
    (pc = "done") /\ (req.op = "get_multiple_stocks")
        /\ (ret.kind = "returned") /\ (req.symbols # <<>>)

\* The symbols of the call for which some task got a data point
FetchedSymbols ==
    { pool.futures[i].symbol :
          i \in { j \in 1..Len(pool.futures) :
                     pool.futures[j].data # NoDataPoint } }

\* While tasks are out, a task can start, a fetch can end, a finished
\* task can be collected, or the call can return
GatherCanProceed ==
    \/ TasksIn("queued") # {}
           /\ Cardinality(TasksIn("fetching") \cup TasksIn("reading"))
           < req.max_workers
    \/ TasksIn("fetching") # {}
    \/ TasksIn("reading") # {}
    \/ TasksIn("finished") # {}
    \/ TasksIn("collected") = 1..Len(pool.futures)

\* C19: whatever the order in which the tasks finish and are collected,
\* get_multiple_stocks returns a dictionary whose keys are exactly the
\* requested symbols for which a fetch gave a data point, each key with
\* the data point a task for that very symbol returned; a symbol whose
\* fetch gave nothing is left out and takes no other symbol with it, and
\* the call is never stuck while tasks are out.
PartialSuccessMergedBySymbol ==
    /\ MultipleStocksDone =>
           /\ DOMAIN ret.value = FetchedSymbols
           /\ \A s \in DOMAIN ret.value :
                  \E i \in 1..Len(pool.futures) :
                      /\ pool.futures[i].symbol = s
                      /\ pool.futures[i].data = ret.value[s]
    /\ (pc = "gather") => GatherCanProceed

\* Reached: the fetch of AAPL succeeded, the fetch of MSFT failed and
\* was collected last, and the call returned AAPL alone
FailedFetchCollectedLast ==
    /\ MultipleStocksDone
    /\ req.symbols = <<"AAPL", "MSFT">>
    /\ pool.collected = <<1, 2>>
    /\ pool.futures[2].data = NoDataPoint
    /\ DOMAIN ret.value = {"AAPL"}

\* ------------------------------------------------------------------
\* Sharpe ratios on a short history: properties
\* ------------------------------------------------------------------
SharpeDone ==
    /\ pc = "done"
    /\ req.op \in {"calculate_comprehensive_metrics",
                   "calculate_portfolio_metrics"}
    /\ ret.kind = "returned"

\* The number of periods of returns the call had
PeriodsAvailable ==
    IF req.op = "calculate_comprehensive_metrics"
    THEN Len(daily_returns) ELSE Len(req.returns)

\* C20: with fewer than 30 periods of returns, neither
\* calculate_comprehensive_metrics nor calculate_portfolio_metrics reports
\* a sharpe_ratio that is 0 or any other ordinary (finite) number.
ShortHistoryReportsNoSharpeNumber ==
    (SharpeDone /\ PeriodsAvailable < 30) =>
        ~IsFin(ret.value.sharpe_ratio)

\* ------------------------------------------------------------------
\* The surface builder's inversion against implied_volatility
\* ------------------------------------------------------------------
\* The two routines agree on a quote: two numbers agree to half a
\* volatility point (the fixed-point iterates of a settled iteration
\* differ by less), and where _calculate_iv gives None
\* implied_volatility gives a number and not nan or an infinity
SameVolatility(iv, returned) ==
    IF iv = NoIv THEN IsFin(returned)
    ELSE IsFin(returned) /\ (Abs(iv - returned) <= 50)

\* C23: for every usable quote (bid > 0 and ask > 0) of an expiry with time
\* left, the implied volatility _calculate_iv computes is the value
\* implied_volatility returns for the same spot, strike, time to expiry,
\* rate 0.05, mid price and option type, at its default tolerance and
\* max_iter.
SurfaceInvertsLikeImpliedVolatility ==
    SurfaceDone =>
        \A k \in DOMAIN SourceExpiries :
            SourceExpiries[k].days > 0 =>
                \A type \in {"call", "put"} :
                    \A q \in DOMAIN SideOf(SourceExpiries[k], type) :
                        LET quote == SideOf(SourceExpiries[k], type)[q]
                            T == ((SourceExpiries[k].days * SC) + 182) \div 365
                            mid_price == (quote.bid + quote.ask) \div 2
                        IN  Usable(quote) =>
                                SameVolatility(
                                    _calculate_iv(req.current_price,
                                        quote.strike, T, mid_price, type),
                                    implied_volatility(req.current_price,
                                        quote.strike, T, 500, mid_price, type,
                                        ToleranceDefault, MaxIterDefault))

\* C30: for every confidence level in (0, 1), every forecast_days >= 0
\* and every volatility >= 0, a result forecast_price_range returns has
\* lower_bound <= expected_price <= upper_bound, whether the volatility
\* came from the option chain or from the historical closes.
BoundsEncloseExpectedPrice ==
    (PriceRangeDone /\ ret.kind = "returned"
        /\ ret.value.implied_volatility # NaN
        /\ ret.value.implied_volatility >= 0) =>
        /\ ret.value.lower_bound <= ret.value.expected_price
        /\ ret.value.expected_price <= ret.value.upper_bound

\* Reached: a 30-day forecast at a confidence of a half from the option
\* chain, with the expected price strictly inside the bounds
HalfConfidenceRangeFromTheChain ==
    /\ PriceRangeDone
    /\ ret.kind = "returned"
    /\ path = "direct"
    /\ req.confidence_level = 5000
    /\ req.forecast_days = 30
    /\ ret.value.lower_bound < ret.value.expected_price
    /\ ret.value.expected_price < ret.value.upper_bound

\* ------------------------------------------------------------------
\* Monte Carlo tail metrics: properties
\* ------------------------------------------------------------------
\* a <= b of two floats: false when either is nan
FloatLeq(a, b) == (a # NaN) /\ (b # NaN) /\ (a <= b)

\* var_99 <= var_95 <= var_90, and cvar_c <= var_c at each level
TailMetricsInOrder ==
    LET var == ret.value.risk_metrics.var_metrics
        cvar == ret.value.risk_metrics.cvar_metrics
    IN  /\ FloatLeq(var.var_99, var.var_95)
        /\ FloatLeq(var.var_95, var.var_90)
        /\ FloatLeq(cvar.cvar_90, var.var_90)
        /\ FloatLeq(cvar.cvar_95, var.var_95)
        /\ FloatLeq(cvar.cvar_99, var.var_99)

\* C29 as stated: in every result of monte_carlo_portfolio_simulation
\* var_99 <= var_95 <= var_90, and cvar_c <= var_c for c in {90, 95, 99}.
TailMetricsOrdered == MonteCarloDone => TailMetricsInOrder

\* C29: in every result of monte_carlo_portfolio_simulation whose final
\* values are all finite, var_99 <= var_95 <= var_90, and cvar_c <= var_c
\* for c in {90, 95, 99}.
TailMetricsOrderedWhenFinite ==
    (MonteCarloDone
        /\ \A s \in DOMAIN ret.value.simulation_results.final_values :
               IsFin(ret.value.simulation_results.final_values[s])) =>
        TailMetricsInOrder

\* Reached: a simulation of finite values whose three percentiles differ
\* and whose 90% tail mean is below its percentile
TailMetricsStrictlyOrdered ==
    /\ MonteCarloDone
    /\ IsFin(ret.value.risk_metrics.mean_final_value)
    /\ ret.value.risk_metrics.var_metrics.var_99
           < ret.value.risk_metrics.var_metrics.var_95
    /\ ret.value.risk_metrics.var_metrics.var_95
           < ret.value.risk_metrics.var_metrics.var_90
    /\ ret.value.risk_metrics.cvar_metrics.cvar_90
           < ret.value.risk_metrics.var_metrics.var_90

\* ------------------------------------------------------------------
\* PerformanceTracker's metrics cache: properties
\* ------------------------------------------------------------------
\* C28: after any sequence of log_daily_return and
\* calculate_comprehensive_metrics calls, a write to the CSV file that
\* fails included, the metrics calculate_comprehensive_metrics returns
\* were computed from all the returns in daily_returns: they count as many
\* trading days as daily_returns holds, never fewer.
MetricsCoverEveryLoggedReturn ==
    (pc = "done" /\ req.op = "calculate_comprehensive_metrics") =>
        ret.value.num_trading_days = Len(daily_returns)


\* ------------------------------------------------------------------
\* MarketDataService.get_stock_data: properties
\* ------------------------------------------------------------------
\* The tasks of the call whose get_stock_data has returned
ReturnedTasks ==
    TasksIn("finished") \cup TasksIn("collected")

\* C26: a get_stock_data call that found a valid cache entry for its
\* symbol when it started returns a data point, never None, whatever
\* other get_stock_data calls and clear_cache calls run beside it.
ValidEntryIsReturned ==
    \A i \in ReturnedTasks :
        pool.futures[i].hit => (pool.futures[i].data # NoDataPoint)

\* C27: every data point a get_stock_data call returns, fetched or from
\* the cache, has the requested symbol in its symbol field, also after
\* get_market_indices has run on the service.
ReturnedSymbolIsRequestedSymbol ==
    \A i \in ReturnedTasks :
        (pool.futures[i].data # NoDataPoint)
            => (pool.futures[i].data.symbol = pool.futures[i].symbol)


\* ------------------------------------------------------------------
\* Accounts, portfolios and holdings: properties
\* ------------------------------------------------------------------
\* The application has answered a call of the operation op
Answered(op) ==
    (req.op = "serve") /\ (pc = "done") /\ (ret.call.op = op)

\* C22: a registration under an e-mail that has an account is answered
\* 400 'Email already registered' and every stored account stays as its
\* first successful registration (or as built in) made it; a login is
\* answered 200 exactly when the password is the one of that account.
DuplicateRegistrationChangesNothing ==
    /\ DEMO_USERS = ledger.accounts
    /\ Answered("register") =>
           /\ ret.call.email \in DOMAIN DEMO_USERS
           /\ (ret.status = 400) =>
                  (ret.body = Detail("Email already registered"))
           /\ (ret.status = 200) =>
                  /\ ret.call.email \notin DOMAIN DemoUsers
                  /\ DEMO_USERS[ret.call.email].password_hash
                         = ret.call.password
    /\ Answered("login") =>
           ((ret.status = 200) <=>
               /\ ret.call.email \in DOMAIN ledger.accounts
               /\ ret.call.password
                      = ledger.accounts[ret.call.email].password_hash)

\* Reached: an e-mail registered by a client is registered again with
\* another password and refused
SecondRegistrationRefused ==
    /\ Answered("register")
    /\ ret.status = 400
    /\ ret.call.email \notin DOMAIN DemoUsers
    /\ ret.call.password # DEMO_USERS[ret.call.email].password_hash

\* C21: GET /portfolio/{id} by the owner lists exactly the holdings that
\* were added to that portfolio and not deleted, after any sequence of
\* creations, additions and deletions by any users.
PortfolioListsItsHoldings ==
    (Answered("get_portfolio") /\ ret.status = 200) =>
        (ret.body.holdings =
            { k.ticker : k \in { l \in ledger.kept :
                                    l.portfolio = ret.body.name } })

\* C25: create_portfolio gives the new portfolio an id no stored
\* portfolio has: every portfolio stored before the call is stored
\* unchanged, owner included, after it.
CreateKeepsStoredPortfolios ==
    [][(ledger'.created # ledger.created) =>
          \A id \in DOMAIN USER_PORTFOLIOS :
              /\ id \in DOMAIN USER_PORTFOLIOS'
              /\ USER_PORTFOLIOS'[id] = USER_PORTFOLIOS[id]]_vars


\* ------------------------------------------------------------------
\* The market-data cache: properties
\* ------------------------------------------------------------------
\* C24: a price that get_stock_price returns from its cache was stored
\* less than cache_duration (300 s) before the call; an entry of that
\* age or older is not served.
CachedPriceYoungerThanCacheDuration ==
    (Answered("get_stock_price") /\ ret.body.cached) =>
        (ret.body.age < cache_duration)

\* As long as the clock was not set back, a cached price is younger than
\* cache_duration
CachedPriceYoungUnderSteadyClock ==
    (Answered("get_stock_price") /\ ret.body.cached /\ ~clock.set_back) =>
        (ret.body.age < cache_duration)

====
